---- MODULE Spec2Model ----
(***************************************************************************)
(* Uptime / latency monitoring backend (Motia steps).                      *)
(*                                                                         *)
(* Part 1, the probe pipeline: PingMonitor (executeProbe), MonitorDown and *)
(* MonitorRecovered (alert state machine).  Every handler is an async      *)
(* function; each `await` on the state store or on the event bus is one    *)
(* atomic step of a worker, so handlers of the same monitor interleave     *)
(* between their awaits.                                                   *)
(***************************************************************************)
EXTENDS Integers, Sequences, FiniteSets, Bags, TLC

\* ------------------------------------------------------------------ bounds
\* probes started in one behaviour (all monitors together), when handlers run
\* one at a time and when they overlap
MaxProbes == 4
MaxOverlapProbes == 2
\* handler invocations that may be in progress at the same time
MaxWorkers == 2
\* events the bus delivers a second time
MaxDups == 1
\* timer firings of one status-stream connection
MaxTicks == 2
\* metric appends and clock advances while a status stream is open
MaxEnvSteps == 3
\* a metric window on its own: regular samples, then samples of any kind
MaxBaseline == 20
MaxTail == 1
\* stored monitor configs the dispatcher reads, and its ticks
MaxConfigs == 3
MaxCronTicks == 2
\* requests to the creation endpoint
MaxCreates == 2
\* probes and timer firings while the pipeline and a status stream run together
MaxSharedProbes == 2
MaxSharedTicks == 1
\* probes, and publishes that throw, in a behaviour of the pipeline whose
\* event bus may fail
MaxFairProbes == 3
MaxPublishFailures == 1
\* metrics in a window whose scores are computed in binary64
MaxFloatSamples == 5

\* ------------------------------------------------------- monitor registry
\* Stored monitor configs ('monitors' group).  m1 carries failureThreshold 1,
\* m2 carries none (an object stored without the field), "gone" has no config.
MonitorIds == {"m1", "m2", "gone"}

MonitorStore ==
    [m1 |-> [id |-> "m1", url |-> "http://a", failureThreshold |-> 1],
     m2 |-> [id |-> "m2", url |-> "http://b"]]

Monitors == DOMAIN MonitorStore

Workers == 1..MaxWorkers

\* ------------------------------------------------------------ key/value store
\* state.get(group, key): the stored value, or undefined
Undefined == "undefined"

StateGet(store, key) == IF key \in DOMAIN store THEN store[key] ELSE Undefined

StateSet(store, key, value) ==
    [k \in DOMAIN store \cup {key} |-> IF k = key THEN value ELSE store[k]]

\* state.getGroup('monitor-metrics'): the stored metrics as an array
RECURSIVE KeysToSeq(_)
KeysToSeq(keys) ==
    IF keys = {} THEN << >>
    ELSE LET k == CHOOSE x \in keys : TRUE IN <<k>> \o KeysToSeq(keys \ {k})

GetGroup(store) ==
    LET keys == KeysToSeq(DOMAIN store) IN [i \in 1..Len(keys) |-> store[keys[i]]]

\* ((await state.get('monitor-failures', id)) as number) ?? 0
GetFailures(store, key) == IF key \in DOMAIN store THEN store[key] ELSE 0

\* typeof monitor.failureThreshold === 'number' ? monitor.failureThreshold : 3
FailureThreshold(monitor) ==
    IF "failureThreshold" \in DOMAIN monitor THEN monitor.failureThreshold ELSE 3

\* What axios.get yields: a response with its status after `elapsed` ms
\* (validateStatus accepts every status), or no response (the catch branch).
HttpOutcomes ==
    {[response |-> TRUE, status |-> 200, elapsed |-> 100],
     [response |-> TRUE, status |-> 500, elapsed |-> 100]}

\* success = res.status < 400; a transport error gives success false

ProbeSuccess(o) == o.response /\ o.status < 400

\* statusCode = res.status, or error?.response?.status ?? 0
ProbeStatusCode(o) == IF o.response THEN o.status ELSE 0

\* new Date().toISOString(): the instant at millisecond precision
ToISOString(ms) == [valid |-> TRUE, ms |-> ms]

\* Date.parse(ts): the instant of a well-formed ISO string, NaN otherwise
NaN == -1

DateParse(ts) == IF ts.valid THEN ts.ms ELSE NaN

\* the Metric a probe of monitor m records at clock reading t
ProbeMetric(m, o, t) ==
    [monitorId |-> m, timestamp |-> ToISOString(t), latency |-> o.elapsed,
     statusCode |-> ProbeStatusCode(o), success |-> ProbeSuccess(o)]

VARIABLES
    failures,      \* 'monitor-failures' group: monitorId -> FailureCounter
    alertState,    \* 'monitor-state' group: monitorId -> UP | DOWN | ALERTED
    metrics,       \* 'monitor-metrics' group: <<monitorId, Date.now()>> -> Metric
    clock,         \* Date.now() as last observed by a metric write
    bus,           \* events published and not yet delivered (a bag)
    alerts,        \* SEND_ALERT events published (a bag)
    worker,        \* the handler invocations in progress
    probes,        \* PING_MONITOR events delivered so far
    dups,          \* duplicate deliveries so far
    hist,          \* history of the run, per monitor (not program state)
    conn,          \* one status-stream connection: closed flag, timers, phase
    sent,          \* what was written to the connection's response channel
    inflight,      \* poll callbacks suspended in their metric-store read
    envSteps,      \* metric appends and clock advances around the stream so far
    route,         \* one SendAlert invocation: its input and what it did
    check,         \* one CheckAnomaly run on its own: the metrics read, the result
    cron,          \* the PingMonitorsCron ticks: configs read, loop position, events
    api            \* the creation endpoint: the registry and the last response

pipeVars == <<failures, alertState, bus, alerts, worker, probes, dups, hist>>

storeVars == <<metrics, clock>>

streamVars == <<conn, sent, inflight, envSteps>>

sideVars == <<check, cron, api>>

vars == <<pipeVars, storeVars, streamVars, route, sideVars>>

\* the Metric local of an invocation that has built none
NoMetric == [monitorId |-> "gone", timestamp |-> ToISOString(0), latency |-> 0,
             statusCode |-> 0, success |-> FALSE]

\* anomalies: CHECK_ANOMALY events this invocation has emitted (history)
Idle == [pc |-> "idle", m |-> "gone", success |-> FALSE, prevFailures |-> 0,
         prevState |-> Undefined, metric |-> NoMetric, anomalies |-> 0]

Event(topic, m) == [topic |-> topic, monitorId |-> m]

AlertEvent(m, severity, recovered) ==
    [monitorId |-> m, severity |-> severity, recovered |-> recovered]

Emit(b, e) == b (+) SetToBag({e})

\* ------------------------------------------------------------------ history
\* consec:     failed probes completed since the last successful probe completed
\* critRun:    down-alerts (SEND_ALERT CRITICAL of MonitorDown) since then
\* critOutage: down-alerts since the last UP -> DOWN transition of AlertState
\* recOutage:  recovery alerts since AlertState last left UP (for DOWN or ALERTED)
\* staleSeen:  a MONITOR_RECOVERED was handled as stale since then
\* lastPrev:   AlertState read by the latest probe if it succeeded, else "none"
\* written:    metric writes of probes of the monitor that completed
\* lastUnknown: the latest PING_MONITOR delivered named an ID with no config
\* lastHttp:   the handler of the latest PING_MONITOR issued its HTTP request
\* lastOk:     that request succeeded (a response with a status below 400)
\* lastChecks: CHECK_ANOMALY events emitted since the latest PING_MONITOR
\*             was delivered
\* publishFailed: calls of emit that threw so far
\* prompt:     every handler so far ran to completion before the next one
\*             started, no probe has started with an event pending and no
\*             event was delivered twice
HistInit ==
    [mon |-> [m \in Monitors |->
                [consec |-> 0, critRun |-> 0, critOutage |-> 0, recOutage |-> 0,
                 staleSeen |-> FALSE, lastPrev |-> "none", written |-> 0]],
     lastUnknown |-> FALSE, lastHttp |-> FALSE, lastOk |-> FALSE, lastChecks |-> 0,
     publishFailed |-> 0, prompt |-> TRUE]

HistSet(m, field, value) == [hist EXCEPT !.mon[m][field] = value]

AllIdle == \A w \in Workers : worker[w].pc = "idle"

Quiescent == AllIdle /\ bus = EmptyBag

\* the event bus hands an event to the first free handler slot
FreeWorker(w) ==
    /\ worker[w].pc = "idle"
    /\ \A v \in Workers : v < w => worker[v].pc # "idle"

\* serial: the runtime starts a handler only when no other is in progress
CanStart(serial, w) == FreeWorker(w) /\ (serial => AllIdle)

Busy(m, pc) == [Idle EXCEPT !.m = m, !.pc = pc]

Goto(w, pc) == worker' = [worker EXCEPT ![w].pc = pc]

\* nothing stored, nothing published, no handler in progress
PipeInit ==
    /\ failures = << >>
    /\ alertState = << >>
    /\ bus = EmptyBag
    /\ alerts = EmptyBag
    /\ worker = [w \in Workers |-> Idle]
    /\ probes = 0
    /\ dups = 0
    /\ hist = HistInit

StoreInit == metrics = << >> /\ clock = 0

\* no client connected
\* disconnects: 'SSE client disconnected' lines logged
NoConn == [phase |-> "none", monitorId |-> "gone", closed |-> FALSE,
           pollInterval |-> FALSE, keepAliveInterval |-> FALSE,
           ticks |-> 0, failedWrites |-> 0, disconnects |-> 0]

StreamIdle == conn = NoConn /\ sent = << >> /\ inflight = EmptyBag /\ envSteps = 0

\* no SEND_ALERT being routed
NoRoute == [pc |-> "none"]

\* no anomaly run, no cron tick, no creation request observed on its own
NoCheck == [pc |-> "none"]

NoCron == [pc |-> "none"]

NoApi == [pc |-> "none"]

SideIdle == check = NoCheck /\ cron = NoCron /\ api = NoApi

Init == PipeInit /\ StoreInit /\ StreamIdle /\ route = NoRoute /\ SideIdle

\* --------------------------------------------------------------- PingMonitor
\* (mutant: the ALERTED case is forgotten)
IsDownOnly(prevState) == prevState = "DOWN"

\* prevState === 'DOWN' || prevState === 'ALERTED'
IsDownOrAlerted(prevState) == prevState \in {"DOWN", "ALERTED"}

\* newFailures >= failureThreshold
ThresholdMet(newFailures, monitor) == newFailures >= FailureThreshold(monitor)

\* (mutant: the missing-config check is dropped)
MonitorFoundAlways(m) == TRUE

\* !monitor is false: state.get('monitors', monitorId) found a config
MonitorFound(m) == m \in DOMAIN MonitorStore

\* A PING_MONITOR event is delivered: the handler loads the config, probes the
\* URL, builds the metric and persists it under `${monitorId}:${Date.now()}`.
\* wrote = FALSE: that state.set throws, and the catch ends the handler.
PingMonitorBegin(serial, w, m, o, t, wrote) ==
    /\ CanStart(serial, w)
    /\ probes < (IF serial THEN MaxProbes ELSE MaxOverlapProbes)
    /\ probes' = probes + 1
    /\ IF ~MonitorFound(m)
       THEN /\ hist' = [hist EXCEPT !.lastUnknown = m \notin Monitors, !.lastHttp = FALSE,
                                    !.lastOk = FALSE, !.lastChecks = 0]
            /\ UNCHANGED <<streamVars, route, sideVars, failures, alertState, metrics, clock, bus, alerts, worker, dups>>
       ELSE IF ~wrote
       THEN /\ hist' = [hist EXCEPT !.lastUnknown = m \notin Monitors, !.lastHttp = TRUE,
                                    !.lastOk = ProbeSuccess(o), !.lastChecks = 0]
            /\ UNCHANGED <<streamVars, route, sideVars, failures, alertState, metrics, clock, bus, alerts, worker, dups>>
       ELSE /\ metrics' = StateSet(metrics, <<m, t>>, ProbeMetric(m, o, t))
            /\ clock' = t
            /\ worker' = [worker EXCEPT ![w] =
                            [Busy(m, "ping_getFailures") EXCEPT !.success = ProbeSuccess(o),
                                                                !.metric = ProbeMetric(m, o, t)]]
            /\ hist' = [hist EXCEPT !.mon[m].lastPrev = "none",
                                    !.mon[m].written = @ + 1,
                                    !.lastUnknown = m \notin Monitors,
                                    !.lastHttp = TRUE,
                                    !.lastOk = ProbeSuccess(o),
                                    !.lastChecks = 0,
                                    !.prompt = @ /\ serial /\ bus = EmptyBag]
            /\ UNCHANGED <<streamVars, route, sideVars, failures, alertState, bus, alerts, dups>>

PingGetFailures(w) ==
    /\ worker[w].pc = "ping_getFailures"
    /\ LET prev == GetFailures(failures, worker[w].m) IN
       worker' = [worker EXCEPT ![w].prevFailures = prev,
                                ![w].pc = IF worker[w].success
                                          THEN IF prev # 0 THEN "ping_resetFailures"
                                                           ELSE "ping_getStateOk"
                                          ELSE "ping_setFailures"]
    /\ UNCHANGED <<streamVars, route, sideVars, failures, alertState, metrics, clock, bus, alerts, probes, dups, hist>>

PingResetFailures(w) ==
    /\ worker[w].pc = "ping_resetFailures"
    /\ failures' = StateSet(failures, worker[w].m, 0)
    /\ Goto(w, "ping_getStateOk")
    /\ UNCHANGED <<streamVars, route, sideVars, alertState, metrics, clock, bus, alerts, probes, dups, hist>>

PingGetStateOk(w) ==
    /\ worker[w].pc = "ping_getStateOk"
    /\ LET prev == StateGet(alertState, worker[w].m) IN
       /\ worker' = [worker EXCEPT ![w].prevState = prev,
                                   ![w].pc = IF IsDownOrAlerted(prev)
                                             THEN "ping_setUp" ELSE "ping_emitAnomaly"]
       /\ hist' = HistSet(worker[w].m, "lastPrev", prev)
    /\ UNCHANGED <<streamVars, route, sideVars, failures, alertState, metrics, clock, bus, alerts, probes, dups>>

PingSetUp(w) ==
    /\ worker[w].pc = "ping_setUp"
    /\ alertState' = StateSet(alertState, worker[w].m, "UP")
    /\ Goto(w, "ping_emitRecovered")
    /\ UNCHANGED <<streamVars, route, sideVars, failures, metrics, clock, bus, alerts, probes, dups, hist>>

\* (mutant: the recovery branch returns after its emit)
AfterRecoveredEmitReturns == "ping_finish"

\* after the recovery branch control falls through to the CHECK_ANOMALY emit
AfterRecoveredEmit == "ping_emitAnomaly"

PingEmitRecovered(w) ==
    /\ worker[w].pc = "ping_emitRecovered"
    /\ bus' = Emit(bus, Event("MONITOR_RECOVERED", worker[w].m))
    /\ Goto(w, AfterRecoveredEmit)
    /\ UNCHANGED <<streamVars, route, sideVars, failures, alertState, metrics, clock, alerts, probes, dups, hist>>

PingEmitAnomaly(w) ==
    /\ worker[w].pc = "ping_emitAnomaly"
    /\ bus' = Emit(bus, Event("CHECK_ANOMALY", worker[w].m))
    /\ worker' = [worker EXCEPT ![w].pc = "ping_finish", ![w].anomalies = @ + 1]
    /\ hist' = [hist EXCEPT !.lastChecks = @ + 1]
    /\ UNCHANGED <<streamVars, route, sideVars, failures, alertState, metrics, clock, alerts, probes, dups>>

PingSetFailures(w) ==
    /\ worker[w].pc = "ping_setFailures"
    /\ LET newFailures == worker[w].prevFailures + 1 IN
       /\ failures' = StateSet(failures, worker[w].m, newFailures)
       /\ Goto(w, IF ThresholdMet(newFailures, MonitorStore[worker[w].m])
                  THEN "ping_getStateFail" ELSE "ping_finish")
    /\ UNCHANGED <<streamVars, route, sideVars, alertState, metrics, clock, bus, alerts, probes, dups, hist>>

PingGetStateFail(w) ==
    /\ worker[w].pc = "ping_getStateFail"
    /\ LET prev == StateGet(alertState, worker[w].m) IN
       worker' = [worker EXCEPT ![w].prevState = prev,
                                ![w].pc = IF ~IsDownOrAlerted(prev)
                                          THEN "ping_setDown" ELSE "ping_finish"]
    /\ UNCHANGED <<streamVars, route, sideVars, failures, alertState, metrics, clock, bus, alerts, probes, dups, hist>>

PingSetDown(w) ==
    /\ worker[w].pc = "ping_setDown"
    /\ LET m == worker[w].m IN
       /\ alertState' = StateSet(alertState, m, "DOWN")
       /\ hist' = IF StateGet(alertState, m) \in {Undefined, "UP"}
                  THEN [hist EXCEPT !.mon[m].critOutage = 0, !.mon[m].recOutage = 0,
                                    !.mon[m].staleSeen = FALSE]
                  ELSE hist
    /\ Goto(w, "ping_emitDown")
    /\ UNCHANGED <<streamVars, route, sideVars, failures, metrics, clock, bus, alerts, probes, dups>>

PingEmitDown(w) ==
    /\ worker[w].pc = "ping_emitDown"
    /\ bus' = Emit(bus, Event("MONITOR_DOWN", worker[w].m))
    /\ Goto(w, "ping_finish")
    /\ UNCHANGED <<streamVars, route, sideVars, failures, alertState, metrics, clock, alerts, probes, dups, hist>>

\* logger.info('PingMonitor finished') and the best-effort stream send; the
\* handler returns
PingFinish(w) ==
    /\ worker[w].pc = "ping_finish"
    /\ LET m == worker[w].m IN
       hist' = IF worker[w].success
               THEN [hist EXCEPT !.mon[m].consec = 0, !.mon[m].critRun = 0]
               ELSE [hist EXCEPT !.mon[m].consec = @ + 1]
    /\ worker' = [worker EXCEPT ![w] = Idle]
    /\ UNCHANGED <<streamVars, route, sideVars, failures, alertState, metrics, clock, bus, alerts, probes, dups>>

\* ------------------------------------------------------- event delivery
\* The bus delivers a pending event to its subscriber; a delivery marked as a
\* duplicate leaves the event pending, so it is delivered again.
Deliver(e, dup) ==
    /\ BagIn(e, bus)
    /\ IF dup
       THEN dups < MaxDups /\ dups' = dups + 1 /\ bus' = bus
       ELSE dups' = dups /\ bus' = bus (-) SetToBag({e})

HistBegin(serial, dup) == [hist EXCEPT !.prompt = @ /\ serial /\ ~dup]

\* --------------------------------------------------------------- MonitorDown
\* prevState === 'ALERTED': the down-alert of this outage was already sent
AlreadyAlerted(prevState) == prevState = "ALERTED"

\* A MONITOR_DOWN event is delivered; the handler reads AlertState.
MonitorDownBegin(serial, w, m, dup) ==
    /\ CanStart(serial, w)
    /\ Deliver(Event("MONITOR_DOWN", m), dup)
    /\ LET prev == StateGet(alertState, m) IN
       worker' = [worker EXCEPT ![w] =
                    IF AlreadyAlerted(prev) THEN Idle
                    ELSE [Busy(m, "down_emit") EXCEPT !.prevState = prev]]
    /\ hist' = HistBegin(serial, dup)
    /\ UNCHANGED <<streamVars, route, sideVars, failures, alertState, metrics, clock, alerts, probes>>

MonitorDownEmit(w) ==
    /\ worker[w].pc = "down_emit"
    /\ LET m == worker[w].m IN
       /\ alerts' = Emit(alerts, AlertEvent(m, "CRITICAL", FALSE))
       /\ hist' = [hist EXCEPT !.mon[m].critRun = @ + 1, !.mon[m].critOutage = @ + 1]
    /\ Goto(w, "down_setAlerted")
    /\ UNCHANGED <<streamVars, route, sideVars, failures, alertState, metrics, clock, bus, probes, dups>>

MonitorDownSetAlerted(w) ==
    /\ worker[w].pc = "down_setAlerted"
    /\ LET m == worker[w].m IN
       /\ alertState' = StateSet(alertState, m, "ALERTED")
       /\ hist' = IF StateGet(alertState, m) \in {Undefined, "UP"}
                  THEN [hist EXCEPT !.mon[m].recOutage = 0, !.mon[m].staleSeen = FALSE]
                  ELSE hist
    /\ worker' = [worker EXCEPT ![w] = Idle]
    /\ UNCHANGED <<streamVars, route, sideVars, failures, metrics, clock, bus, alerts, probes, dups>>

\* ---------------------------------------------------------- MonitorRecovered
\* (mutant: the UP case is forgotten)
AlreadyUpOnlyUnset(prevState) == prevState = Undefined

\* !prevState || prevState === 'UP': a stale or duplicate recovery signal
AlreadyUp(prevState) == prevState \in {Undefined, "UP"}

\* A MONITOR_RECOVERED event is delivered; the handler reads AlertState.
MonitorRecoveredBegin(serial, w, m, dup) ==
    /\ CanStart(serial, w)
    /\ Deliver(Event("MONITOR_RECOVERED", m), dup)
    /\ LET prev == StateGet(alertState, m) IN
       worker' = [worker EXCEPT ![w] =
                    [Busy(m, IF AlreadyUp(prev) THEN "rec_setUpStale" ELSE "rec_emit")
                       EXCEPT !.prevState = prev]]
    /\ hist' = HistBegin(serial, dup)
    /\ UNCHANGED <<streamVars, route, sideVars, failures, alertState, metrics, clock, alerts, probes>>

MonitorRecoveredStale(w) ==
    /\ worker[w].pc = "rec_setUpStale"
    /\ alertState' = StateSet(alertState, worker[w].m, "UP")
    /\ hist' = HistSet(worker[w].m, "staleSeen", TRUE)
    /\ worker' = [worker EXCEPT ![w] = Idle]
    /\ UNCHANGED <<streamVars, route, sideVars, failures, metrics, clock, bus, alerts, probes, dups>>

MonitorRecoveredEmit(w) ==
    /\ worker[w].pc = "rec_emit"
    /\ LET m == worker[w].m IN
       /\ alerts' = Emit(alerts, AlertEvent(m, "NORMAL", TRUE))
       /\ hist' = [hist EXCEPT !.mon[m].recOutage = @ + 1]
    /\ Goto(w, "rec_resetFailures")
    /\ UNCHANGED <<streamVars, route, sideVars, failures, alertState, metrics, clock, bus, probes, dups>>

MonitorRecoveredResetFailures(w) ==
    /\ worker[w].pc = "rec_resetFailures"
    /\ failures' = StateSet(failures, worker[w].m, 0)
    /\ Goto(w, "rec_setUp")
    /\ UNCHANGED <<streamVars, route, sideVars, alertState, metrics, clock, bus, alerts, probes, dups, hist>>

MonitorRecoveredSetUp(w) ==
    /\ worker[w].pc = "rec_setUp"
    /\ alertState' = StateSet(alertState, worker[w].m, "UP")
    /\ worker' = [worker EXCEPT ![w] = Idle]
    /\ UNCHANGED <<streamVars, route, sideVars, failures, metrics, clock, bus, alerts, probes, dups, hist>>

\* -------------------------------------------------------------- CheckAnomaly
(***************************************************************************)
(* The anomaly detector.  Numbers the code holds as doubles are kept exact: *)
(* a mean is the fraction num/den, a standard deviation is sqrt(rad)/den    *)
(* and a z-score is num/sqrt(rad), with rad = n * sum(v^2) - sum(v)^2 (the  *)
(* population variance times n^2).  |z| > k is then num^2 > k^2 * rad.      *)
(***************************************************************************)
\* 60 * 60 * 1000
AnomalyWindowMs == 3600000

\* parseISO(ts): the instant, or null (here NaN) for an unparsable timestamp
ParseISO(ts) == DateParse(ts)

\* the loop over `all`: metrics of the monitor, parsable, not before windowStart
AnomalyMetrics(all, monitorId, now) ==
    SelectSeq(all, LAMBDA m : /\ m.monitorId = monitorId
                              /\ ParseISO(m.timestamp) # NaN
                              /\ ~(ParseISO(m.timestamp) < now - AnomalyWindowMs))

\* metrics.sort((a, b) => a._ts.getTime() - b._ts.getTime()): stable, so
\* metrics with equal timestamps keep the order the store returned them in
RECURSIVE SortOldestFirst(_)
SortOldestFirst(ms) ==
    IF Len(ms) <= 1 THEN ms
    ELSE LET rest == SortOldestFirst(SubSeq(ms, 1, Len(ms) - 1))
             x == ms[Len(ms)]
             before == SelectSeq(rest, LAMBDA y : ParseISO(y.timestamp) <= ParseISO(x.timestamp))
             after == SelectSeq(rest, LAMBDA y : ParseISO(y.timestamp) > ParseISO(x.timestamp))
         IN before \o <<x>> \o after

\* nums.reduce((s, v) => s + v, 0)
RECURSIVE Sum(_)
Sum(nums) == IF nums = << >> THEN 0 ELSE nums[1] + Sum(Tail(nums))

Squares(nums) == [i \in 1..Len(nums) |-> nums[i] * nums[i]]

\* n * sum(v^2) - sum(v)^2
Radicand(nums) == Len(nums) * Sum(Squares(nums)) - Sum(nums) * Sum(nums)

\* mean(nums)
Mean(nums) ==
    IF Len(nums) = 0 THEN [num |-> 0, den |-> 1]
    ELSE [num |-> Sum(nums), den |-> Len(nums)]

\* pstdev(nums): Math.sqrt(sumSq / nums.length)
Pstdev(nums) ==
    IF Len(nums) = 0 THEN [rad |-> 0, den |-> 1]
    ELSE [rad |-> Radicand(nums), den |-> Len(nums)]

Zero == [num |-> 0, rad |-> 1]

\* (mutant: the division is not guarded by stdev > 0)
ZScoreUnguarded(nums, latest) ==
    [num |-> Len(nums) * latest - Sum(nums), rad |-> Radicand(nums)]

\* stdev > 0 ? (latest - mean) / stdev : 0
ZScore(nums, latest) ==
    IF Pstdev(nums).rad > 0
    THEN [num |-> Len(nums) * latest - Sum(nums), rad |-> Radicand(nums)]
    ELSE Zero

\* Math.abs(z) > k
AbsExceeds(z, k) == z.num * z.num > k * k * z.rad

\* severityFromZ(z)
SeverityFromZ(z) ==
    IF AbsExceeds(z, 3) THEN "CRITICAL"
    ELSE IF AbsExceeds(z, 2) THEN "WARNING"
    ELSE "NORMAL"

\* metrics.map(m => m.latency) (every stored latency is a number)
Latencies(samples) == [i \in 1..Len(samples) |-> samples[i].latency]

\* (mutant: the oldest sample is taken for the latest)
LatestOfFirst(nums) == nums[1]

\* latencies[latencies.length - 1]
LatestOf(nums) == nums[Len(nums)]

\* Math.floor(m._ts.getTime() / 60000) * 60000
MinuteKey(m) == (ParseISO(m.timestamp) \div 60000) * 60000

\* Array.from(buckets.keys()).sort((a, b) => a - b)
RECURSIVE SortedKeys(_)
SortedKeys(keys) ==
    IF keys = {} THEN << >>
    ELSE LET k == CHOOSE x \in keys : \A y \in keys : x <= y
         IN <<k>> \o SortedKeys(keys \ {k})

MinuteKeys(samples) == SortedKeys({MinuteKey(samples[i]) : i \in 1..Len(samples)})

Bucket(samples, k) == SelectSeq(samples, LAMBDA m : MinuteKey(m) = k)

\* failures / arr.length per minute bucket, as the fraction num/den
ErrorRates(samples) ==
    LET keys == MinuteKeys(samples) IN
    [i \in 1..Len(keys) |->
        LET arr == Bucket(samples, keys[i])
        IN [num |-> Len(SelectSeq(arr, LAMBDA x : x.success = FALSE)), den |-> Len(arr)]]

RECURSIVE Product(_)
Product(nums) == IF nums = << >> THEN 1 ELSE nums[1] * Product(Tail(nums))

\* the common denominator of the per-minute rates
RateScale(rates) == Product([i \in 1..Len(rates) |-> rates[i].den])

\* the rates as integers over the common denominator
Scaled(rates) ==
    LET scale == RateScale(rates) IN
    [i \in 1..Len(rates) |-> rates[i].num * (scale \div rates[i].den)]

\* (mutant: the error-rate severity is ignored)
WorseLatencyOnly(sevLatency, sevError) == sevLatency

\* the overall severity: the worse of the two
Worse(sevLatency, sevError) ==
    IF sevLatency = "CRITICAL" \/ sevError = "CRITICAL" THEN "CRITICAL"
    ELSE IF sevLatency = "WARNING" \/ sevError = "WARNING" THEN "WARNING"
    ELSE "NORMAL"

\* The value the handler returns for the metrics `all` read from the store.
CheckAnomaly(all, monitorId, now) ==
    LET sorted == SortOldestFirst(AnomalyMetrics(all, monitorId, now))
        latencies == Latencies(sorted)
        rates == ErrorRates(sorted)
        scaled == Scaled(rates)
        zLatency == ZScore(latencies, LatestOf(latencies))
        zError == ZScore(scaled, LatestOf(scaled))
    IN IF Len(sorted) = 0
       THEN [monitorId |-> monitorId, severity |-> "NORMAL", reason |-> "no_metrics"]
       ELSE [monitorId |-> monitorId,
             severity |-> Worse(SeverityFromZ(zLatency), SeverityFromZ(zError)),
             reason |-> "",
             samples |-> Len(sorted),
             latency |-> [value |-> LatestOf(latencies), mean |-> Mean(latencies),
                          stdev |-> Pstdev(latencies), z |-> zLatency],
             error_rate |-> [value |-> LatestOf(rates),
                             mean |-> [num |-> Sum(scaled),
                                       den |-> Len(scaled) * RateScale(rates)],
                             stdev |-> [rad |-> Radicand(scaled),
                                        den |-> Len(scaled) * RateScale(rates)],
                             z |-> zError]]

\* if (severity !== 'NORMAL') emit SEND_ALERT with the result as diagnostic:
\* the data of the events the handler publishes, in order
AnomalyEmits(result) ==
    IF result.severity # "NORMAL"
    THEN <<[monitorId |-> result.monitorId, severity |-> result.severity,
            diagnostic |-> result]>>
    ELSE << >>

\* the same events as the pipeline counts them (no recovered marker)
AnomalyAlerts(result) ==
    IF AnomalyEmits(result) # << >>
    THEN SetToBag({AlertEvent(result.monitorId, result.severity, FALSE)})
    ELSE EmptyBag

\* A CHECK_ANOMALY event is delivered.  The handler reads the metric group,
\* writes no store and has a single await after the read, the emit.
CheckAnomalyRun(serial, m, dup) ==
    /\ serial => AllIdle
    /\ Deliver(Event("CHECK_ANOMALY", m), dup)
    /\ alerts' = alerts (+) AnomalyAlerts(CheckAnomaly(GetGroup(metrics), m, clock))
    /\ hist' = HistBegin(serial, dup)
    /\ UNCHANGED <<streamVars, route, sideVars, failures, alertState, metrics, clock, worker, probes>>

\* ------------------------------------------------------------ specification
\* the steps of the handlers in progress
Step(w) ==
    \/ PingGetFailures(w)
    \/ PingResetFailures(w)
    \/ PingGetStateOk(w)
    \/ PingSetUp(w)
    \/ PingEmitRecovered(w)
    \/ PingEmitAnomaly(w)
    \/ PingSetFailures(w)
    \/ PingGetStateFail(w)
    \/ PingSetDown(w)
    \/ PingEmitDown(w)
    \/ PingFinish(w)
    \/ MonitorDownEmit(w)
    \/ MonitorDownSetAlerted(w)
    \/ MonitorRecoveredStale(w)
    \/ MonitorRecoveredEmit(w)
    \/ MonitorRecoveredResetFailures(w)
    \/ MonitorRecoveredSetUp(w)

\* Date.now() at the metric write: later than the previous write's reading when
\* the previous probe (an HTTP round trip) completed before this one started,
\* possibly the same millisecond when probes overlap
ClockReadings(serial) == IF serial THEN {clock + 1} ELSE {clock, clock + 1}

Begin(serial, w) ==
    \/ \E m \in MonitorIds, o \in HttpOutcomes, t \in ClockReadings(serial), wrote \in BOOLEAN :
          PingMonitorBegin(serial, w, m, o, t, wrote)
    \/ \E m \in Monitors, dup \in BOOLEAN : MonitorDownBegin(serial, w, m, dup)
    \/ \E m \in Monitors, dup \in BOOLEAN : MonitorRecoveredBegin(serial, w, m, dup)
    \/ \E m \in Monitors, dup \in BOOLEAN : CheckAnomalyRun(serial, m, dup)

\* handlers of the same monitor overlap between their awaits
Next == \E w \in Workers : Begin(FALSE, w) \/ Step(w)

Spec == Init /\ [][Next]_vars

\* every handler runs to completion before the next event is delivered
NextSerial == \E w \in Workers : Begin(TRUE, w) \/ Step(w)

SpecSerial == Init /\ [][NextSerial]_vars

\* ================================================================ status stream
(***************************************************************************)
(* Part 2, the status streamer (GET /status/:id).  The handler body is     *)
(* synchronous up to the promise it returns, so connecting is one step;    *)
(* after it the keep-alive timer, the polling timer (whose callback        *)
(* suspends in state.getGroup), the immediate poll and the request's       *)
(* 'close' listener run as separate callbacks.  conn.ticks and             *)
(* conn.failedWrites are history, not program state.                       *)
(***************************************************************************)
\* 60 * 60 * 1000
WindowMs == 3600000

\* request.params.id of the connection observed
StreamIds == {"m1"}

\* how far the clock moves between two observations
ClockSteps == {1000, WindowMs}

\* const t = Date.parse(m?.timestamp ?? ''); !Number.isNaN(t) && t >= cutoff
InWindow(m, now) ==
    LET t == DateParse(m.timestamp) IN t # NaN /\ t >= now - WindowMs

\* .sort((a, b) => Date.parse(a.timestamp) - Date.parse(b.timestamp)), stable
RECURSIVE SortByTimestamp(_)
SortByTimestamp(ms) ==
    IF Len(ms) <= 1 THEN ms
    ELSE LET rest == SortByTimestamp(SubSeq(ms, 1, Len(ms) - 1))
             x == ms[Len(ms)]
             before == SelectSeq(rest, LAMBDA y : DateParse(y.timestamp) <= DateParse(x.timestamp))
             after == SelectSeq(rest, LAMBDA y : DateParse(y.timestamp) > DateParse(x.timestamp))
         IN before \o <<x>> \o after

\* the metrics of the monitor within the last 60 minutes, oldest first
Relevant(all, monitorId, now) ==
    SortByTimestamp(
        SelectSeq(SelectSeq(all, LAMBDA m : m.monitorId = monitorId),
                  LAMBDA m : InWindow(m, now)))

\* (successes / relevant.length) * 100, kept as an exact fraction
UptimePercent(successes, total) == [num |-> successes * 100, den |-> total]

\* (mutant: the oldest in-window metric is reported instead of the latest)
StatusPayloadOldest(relevant, monitorId) ==
    LET latest == relevant[1]
        successes == Len(SelectSeq(relevant, LAMBDA r : r.success = TRUE))
    IN [kind |-> "status", monitorId |-> monitorId, timestamp |-> latest.timestamp,
        latency |-> latest.latency, statusCode |-> latest.statusCode,
        success |-> latest.success,
        uptimePercent |-> UptimePercent(successes, Len(relevant))]

\* the populated status event of a poll
StatusPayload(relevant, monitorId) ==
    LET latest == relevant[Len(relevant)]
        successes == Len(SelectSeq(relevant, LAMBDA r : r.success = TRUE))
    IN [kind |-> "status", monitorId |-> monitorId, timestamp |-> latest.timestamp,
        latency |-> latest.latency, statusCode |-> latest.statusCode,
        success |-> latest.success,
        uptimePercent |-> UptimePercent(successes, Len(relevant))]

\* { monitorId, empty: true, timestamp: new Date().toISOString() }
EmptyPayload(monitorId, now) ==
    [kind |-> "empty", monitorId |-> monitorId, timestamp |-> ToISOString(now)]

\* the initial event: success, latency and uptimePercent null
Placeholder(monitorId, now) ==
    [kind |-> "placeholder", monitorId |-> monitorId, timestamp |-> ToISOString(now)]

\* (mutant: cleanup() without its `if (closed) return`)
CleanupUnguarded(c) ==
    [c EXCEPT !.closed = TRUE, !.pollInterval = FALSE, !.keepAliveInterval = FALSE,
              !.disconnects = @ + 1]

\* cleanup(): guarded by `closed`, clears both timers, logs the disconnect
Cleanup(c) ==
    IF c.closed THEN c
    ELSE [c EXCEPT !.closed = TRUE, !.pollInterval = FALSE, !.keepAliveInterval = FALSE,
                   !.disconnects = @ + 1]

\* a write to rawRes that throws runs cleanup() in the catch
WriteThrew(c) == [Cleanup(c) EXCEPT !.failedWrites = @ + 1]

\* sendEvent(data): two writes in a try; ok = neither write throws
SendEvent(c, data, ok) ==
    IF ok THEN conn' = c /\ sent' = Append(sent, data)
    ELSE conn' = WriteThrew(c) /\ sent' = sent

\* The handler runs for a new request: without a raw response it parks the
\* request; otherwise it sends the placeholder, starts both timers, starts the
\* immediate poll and registers the 'close' listener.
Connect(m, raw, ok) ==
    /\ conn.phase = "none"
    /\ IF ~raw
       THEN conn' = [conn EXCEPT !.phase = "parked", !.monitorId = m]
            /\ UNCHANGED <<sent, inflight>>
       ELSE LET c0 == [conn EXCEPT !.phase = "streaming", !.monitorId = m]
                c1 == IF ok THEN c0 ELSE WriteThrew(c0)
            IN /\ conn' = [c1 EXCEPT !.keepAliveInterval = TRUE, !.pollInterval = TRUE]
               /\ sent' = IF ok THEN <<Placeholder(m, clock)>> ELSE << >>
               /\ inflight' = SetToBag({"immediate"})
    /\ UNCHANGED <<pipeVars, storeVars, envSteps, route, sideVars>>

\* the keep-alive timer fires
KeepAliveTick(ok) ==
    /\ conn.keepAliveInterval
    /\ conn.ticks < MaxTicks
    /\ LET c == [conn EXCEPT !.ticks = @ + 1] IN
       IF ok THEN conn' = c /\ sent' = Append(sent, [kind |-> "keepalive"])
       ELSE conn' = WriteThrew(c) /\ sent' = sent
    /\ UNCHANGED <<pipeVars, storeVars, inflight, envSteps, route, sideVars>>

\* (mutant: the polling tick also clears the failure counter of its monitor)
PollTickResetsFailures ==
    /\ conn.pollInterval
    /\ conn.ticks < MaxTicks
    /\ conn' = [conn EXCEPT !.ticks = @ + 1]
    /\ inflight' = inflight (+) SetToBag({"tick"})
    /\ failures' = StateSet(failures, conn.monitorId, 0)
    /\ UNCHANGED <<alertState, bus, alerts, worker, probes, dups, hist>>
    /\ UNCHANGED <<storeVars, sent, envSteps, route, sideVars>>

\* the polling timer fires: the callback starts and suspends in getGroup
PollTick ==
    /\ conn.pollInterval
    /\ conn.ticks < MaxTicks
    /\ conn' = [conn EXCEPT !.ticks = @ + 1]
    /\ inflight' = inflight (+) SetToBag({"tick"})
    /\ UNCHANGED <<pipeVars, storeVars, sent, envSteps, route, sideVars>>

\* a poll callback resumes with the stored metrics
PollResume(kind, ok) ==
    /\ BagIn(kind, inflight)
    /\ inflight' = inflight (-) SetToBag({kind})
    /\ LET relevant == Relevant(GetGroup(metrics), conn.monitorId, clock) IN
       IF Len(relevant) = 0
       THEN IF kind = "tick"
            THEN SendEvent(conn, EmptyPayload(conn.monitorId, clock), ok)
            ELSE UNCHANGED <<conn, sent>>
       ELSE SendEvent(conn, StatusPayload(relevant, conn.monitorId), ok)
    /\ UNCHANGED <<pipeVars, storeVars, envSteps, route, sideVars>>

\* rawReq 'close': cleanup() and the handler's promise resolves
ClientClose ==
    /\ conn.phase = "streaming"
    /\ conn' = [Cleanup(conn) EXCEPT !.phase = "resolved"]
    /\ UNCHANGED <<pipeVars, storeVars, sent, inflight, envSteps, route, sideVars>>

\* a probe of monitor m completes and persists its metric
MetricRecorded(m, o) ==
    /\ conn.phase # "none"
    /\ envSteps < MaxEnvSteps
    /\ envSteps' = envSteps + 1
    /\ metrics' = StateSet(metrics, <<m, clock>>, ProbeMetric(m, o, clock))
    /\ UNCHANGED <<pipeVars, clock, conn, sent, inflight, route, sideVars>>

\* time passes
Advance(d) ==
    /\ conn.phase # "none"
    /\ envSteps < MaxEnvSteps
    /\ envSteps' = envSteps + 1
    /\ clock' = clock + d
    /\ UNCHANGED <<pipeVars, metrics, conn, sent, inflight, route, sideVars>>

NextStream ==
    \/ \E m \in StreamIds, raw \in BOOLEAN, ok \in BOOLEAN : Connect(m, raw, ok)
    \/ \E ok \in BOOLEAN : KeepAliveTick(ok)
    \/ PollTick
    \/ \E kind \in {"tick", "immediate"}, ok \in BOOLEAN : PollResume(kind, ok)
    \/ ClientClose
    \/ \E m \in Monitors, o \in HttpOutcomes : MetricRecorded(m, o)
    \/ \E d \in ClockSteps : Advance(d)

SpecStream == Init /\ [][NextStream]_vars

\* ================================================================= alert router
(***************************************************************************)
(* Part 3, the alert router (SendAlert, subscribed to SEND_ALERT).  One    *)
(* invocation is one step: it reads the monitor config and the process     *)
(* environment and attempts its dispatches in program order.  A missing    *)
(* (undefined, null or empty) string is "", which is what || tests.        *)
(***************************************************************************)
\* a || b on strings
OrElse(a, b) == IF a # "" THEN a ELSE b

Optional(value) == {"", value}

\* stored monitor configs as far as the router reads them
RouteMonitors ==
    [alertWebhookUrl : Optional("mon-hook"), alertTo : Optional("mon-to"),
     emailFrom : Optional("mon-from"), emailApiUrl : Optional("mon-api"),
     emailApiKey : Optional("mon-key")]

\* process.env
Environments ==
    [EMAIL_API_URL : Optional("env-api"), EMAIL_API_KEY : Optional("env-key"),
     EMAIL_TO : Optional("env-to"), EMAIL_FROM : Optional("env-from"),
     MONITOR_WEBHOOK_URL : Optional("env-hook")]

\* diagnostic: absent, { recovered: true }, or an anomaly breakdown
Diagnostics ==
    {[present |-> FALSE, recovered |-> FALSE], [present |-> TRUE, recovered |-> TRUE],
     [present |-> TRUE, recovered |-> FALSE]}

Severities == {"NORMAL", "WARNING", "CRITICAL"}

\* process.env.EMAIL_API_URL || monitor?.emailApiUrl
EmailApiUrl(monitor, env) == OrElse(env.EMAIL_API_URL, monitor.emailApiUrl)

\* process.env.EMAIL_API_KEY || monitor?.emailApiKey
EmailApiKey(monitor, env) == OrElse(env.EMAIL_API_KEY, monitor.emailApiKey)

\* monitor?.alertTo || process.env.EMAIL_TO
EmailTo(monitor, env) == OrElse(monitor.alertTo, env.EMAIL_TO)

\* process.env.EMAIL_FROM || monitor?.emailFrom
EmailFrom(monitor, env) == OrElse(env.EMAIL_FROM, monitor.emailFrom)

\* monitor?.alertWebhookUrl || process.env.MONITOR_WEBHOOK_URL
WebhookUrl(monitor, env) == OrElse(monitor.alertWebhookUrl, env.MONITOR_WEBHOOK_URL)

\* emailApiUrl && emailApiKey && emailTo && emailFrom
EmailConfigured(monitor, env) ==
    /\ EmailApiUrl(monitor, env) # ""
    /\ EmailApiKey(monitor, env) # ""
    /\ EmailTo(monitor, env) # ""
    /\ EmailFrom(monitor, env) # ""

\* !!(diagnostic && diagnostic.recovered)
Recovered(diagnostic) == diagnostic.present /\ diagnostic.recovered

EmailPost(monitor, env, notice) ==
    [channel |-> "email", notice |-> notice, url |-> EmailApiUrl(monitor, env),
     to |-> EmailTo(monitor, env), from |-> EmailFrom(monitor, env)]

WebhookPost(monitor, env, notice) ==
    [channel |-> "webhook", notice |-> notice, url |-> WebhookUrl(monitor, env),
     to |-> "", from |-> ""]

\* (mutant: the dispatch block has no try/catch around it)
OuterCatchMissing(threw) == [logged |-> << >>, raised |-> threw]

\* } catch (err) { logger.error('Error routing alert') }: what leaves the outer
\* try when one of its awaits threw
OuterCatch(threw) ==
    [logged |-> IF threw THEN <<"Error routing alert">> ELSE << >>, raised |-> FALSE]

\* The dispatch block: the axios.post calls attempted, in order, and whether
\* the outer catch logged 'Error routing alert'.  The CRITICAL email and the
\* alert webhook are awaited directly in the outer try; the two recovery
\* notices have a try/catch of their own.
Dispatch(r) ==
    LET mon == r.monitor
        env == r.env
        emailNow == r.severity = "CRITICAL" /\ EmailConfigured(mon, env)
        emailThrew == emailNow /\ r.emailThrows
        hookNow == /\ ~emailThrew
                   /\ r.severity \in {"WARNING", "CRITICAL"}
                   /\ WebhookUrl(mon, env) # ""
        hookThrew == hookNow /\ r.webhookThrows
        recovery == /\ ~emailThrew /\ ~hookThrew
                    /\ r.severity = "NORMAL"
                    /\ Recovered(r.diagnostic)
        recEmail == recovery /\ EmailConfigured(mon, env)
        recHook == recovery /\ WebhookUrl(mon, env) # ""
        outer == OuterCatch(emailThrew \/ hookThrew)
    IN [attempts |->
            (IF emailNow THEN <<EmailPost(mon, env, "alert")>> ELSE << >>)
         \o (IF hookNow THEN <<WebhookPost(mon, env, "alert")>> ELSE << >>)
         \o (IF recEmail THEN <<EmailPost(mon, env, "recovery")>> ELSE << >>)
         \o (IF recHook THEN <<WebhookPost(mon, env, "recovery")>> ELSE << >>),
        errorLogged |-> emailThrew \/ hookThrew,
        logged |->
            (IF recEmail /\ r.emailThrows THEN <<"Failed to send recovery email">> ELSE << >>)
         \o (IF recHook /\ r.webhookThrows THEN <<"Failed to send recovery webhook">> ELSE << >>)
         \o outer.logged,
        raised |-> outer.raised]

\* The SEND_ALERT events a router invocation may be given, with the stored
\* config (if any), the environment and what each channel would do.
RouteInputs ==
    [pc : {"ready"}, found : BOOLEAN, monitor : RouteMonitors, env : Environments,
     severity : Severities, diagnostic : Diagnostics,
     emailThrows : BOOLEAN, webhookThrows : BOOLEAN,
     attempts : {<< >>}, errorLogged : {FALSE}, logged : {<< >>}, raised : {FALSE}]

\* state.get('monitors', monitorId) finds nothing: every config is the same
NoMonitor == [alertWebhookUrl |-> "", alertTo |-> "", emailFrom |-> "",
              emailApiUrl |-> "", emailApiKey |-> ""]

RouteInit ==
    /\ PipeInit /\ StoreInit /\ StreamIdle /\ SideIdle
    /\ route \in {r \in RouteInputs : ~r.found => r.monitor = NoMonitor}

\* the handler runs
RouteAlert ==
    /\ route.pc = "ready"
    /\ route' = IF ~route.found
                THEN [route EXCEPT !.pc = "done"]
                ELSE [route EXCEPT !.pc = "done",
                                   !.attempts = Dispatch(route).attempts,
                                   !.errorLogged = Dispatch(route).errorLogged,
                                   !.logged = Dispatch(route).logged,
                                   !.raised = Dispatch(route).raised]
    /\ UNCHANGED <<pipeVars, storeVars, streamVars, sideVars>>

NextAlert == RouteAlert

SpecAlert == RouteInit /\ [][NextAlert]_vars

\* ============================================================ anomaly windows
(***************************************************************************)
(* Part 4, the anomaly detector on its own.  The metric store of monitor   *)
(* m1 grows by one probe at a time: first regular probes (successful,      *)
(* 100 ms, one minute apart), then probes of any kind.  A run of the       *)
(* handler reads the store with state.getGroup, which returns the metrics  *)
(* in an order of the store's choosing, at the time of the newest metric.  *)
(* check.prev and check.last are the two latest runs on the present store. *)
(***************************************************************************)
\* a probe: its latency, its outcome and the time since the previous probe
\* (0: the same millisecond; more than the window: after a long pause)
RegularSample == [latency |-> 100, success |-> TRUE, dt |-> 60000]

SampleKinds ==
    [latency : {100, 500}, success : BOOLEAN, dt : {0, 60000, AnomalyWindowMs + 60000}]

\* the Metric of such a probe of m1
SampleMetric(kind, t) ==
    [monitorId |-> "m1", timestamp |-> ToISOString(t), latency |-> kind.latency,
     statusCode |-> IF kind.success THEN 200 ELSE 500, success |-> kind.success]

\* timestamp of the newest stored metric
Newest(store) == IF store = << >> THEN 0 ELSE ParseISO(store[Len(store)].timestamp)

Reverse(seq) == [i \in 1..Len(seq) |-> seq[Len(seq) + 1 - i]]

\* what state.getGroup may return for the same store
Returned(store, order) == IF order = "reverse" THEN Reverse(store) ELSE store

NoRun == [done |-> FALSE]

AnomalyInit ==
    /\ PipeInit /\ StoreInit /\ StreamIdle /\ route = NoRoute
    /\ cron = NoCron /\ api = NoApi
    /\ check = [pc |-> "open", store |-> << >>, tail |-> 0, prev |-> NoRun, last |-> NoRun]

\* a regular probe persists its metric
RecordRegular ==
    /\ check.pc = "open"
    /\ check.tail = 0
    /\ Len(check.store) < MaxBaseline
    /\ check' = [check EXCEPT
                   !.store = Append(@, SampleMetric(RegularSample,
                                        IF @ = << >> THEN 0 ELSE Newest(@) + RegularSample.dt)),
                   !.prev = NoRun, !.last = NoRun]
    /\ UNCHANGED <<pipeVars, storeVars, streamVars, route, cron, api>>

\* a probe of any kind persists its metric
RecordSample(kind) ==
    /\ check.pc = "open"
    /\ check.tail < MaxTail
    /\ check' = [check EXCEPT
                   !.store = Append(@, SampleMetric(kind, Newest(@) + kind.dt)),
                   !.tail = @ + 1,
                   !.prev = NoRun, !.last = NoRun]
    /\ UNCHANGED <<pipeVars, storeVars, streamVars, route, cron, api>>

\* CHECK_ANOMALY for m1 is handled: the handler runs on what getGroup returns,
\* right after the newest metric was written or (late) over an hour after it
RunCheck(order, late) ==
    /\ check.pc = "open"
    /\ check.store # << >>
    /\ LET now == Newest(check.store) + (IF late THEN AnomalyWindowMs + 1 ELSE 0)
           result == CheckAnomaly(Returned(check.store, order), "m1", now)
       IN check' = [check EXCEPT
                      !.prev = check.last,
                      !.last = [done |-> TRUE, now |-> now, result |-> result,
                                emitted |-> AnomalyEmits(result),
                                alerts |-> AnomalyAlerts(result)]]
    /\ UNCHANGED <<pipeVars, storeVars, streamVars, route, cron, api>>

NextAnomaly ==
    \/ RecordRegular
    \/ \E kind \in SampleKinds : RecordSample(kind)
    \/ \E order \in {"stored", "reverse"}, late \in BOOLEAN : RunCheck(order, late)

SpecAnomaly == AnomalyInit /\ [][NextAnomaly]_vars

\* ============================================================== probe dispatch
(***************************************************************************)
(* Part 5, the cron dispatcher (PingMonitorsCron).  A tick reads the       *)
(* 'monitors' group and walks it; every `await emit` is one step.  The     *)
(* whole body is inside one try/catch.  cron.attempted (the emit calls of  *)
(* the tick) and cron.tick are history.                                    *)
(***************************************************************************)
\* what the 'monitors' group may hold: configs with `id`, with `monitorId`,
\* with both or with neither
ConfigShapes == [id : {Undefined, "m1", "m2"}, monitorId : {Undefined, "m3"}]

RECURSIVE SeqsUpTo(_, _)
SeqsUpTo(S, n) ==
    IF n = 0 THEN {<< >>}
    ELSE SeqsUpTo(S, n - 1) \cup
         {Append(q, x) : q \in {r \in SeqsUpTo(S, n - 1) : Len(r) = n - 1}, x \in S}

\* (mutant: only the `id` shape is supported)
ResolveIdOnly(m) == m.id

\* m?.id ?? m?.monitorId
ResolveId(m) == IF m.id # Undefined THEN m.id ELSE m.monitorId

\* !monitorId
NoId(monitorId) == monitorId = Undefined

\* { topic: 'PING_MONITOR', data: { monitorId } }
PingEvent(monitorId) == [monitorId |-> monitorId]

CronInit ==
    /\ PipeInit /\ StoreInit /\ StreamIdle /\ route = NoRoute
    /\ check = NoCheck /\ api = NoApi
    /\ cron \in [pc : {"idle"}, stored : SeqsUpTo(ConfigShapes, MaxConfigs), i : {0},
                 emitted : {<< >>}, attempted : {<< >>}, logged : {FALSE},
                 read : {TRUE}, tick : {0}]

\* the loop position after config i: the next config, or the tick is over
CronAfter(c, i) == IF i < Len(c.stored) THEN [c EXCEPT !.i = i + 1]
                   ELSE [c EXCEPT !.pc = "idle", !.i = 0]

\* The scheduler invokes the handler: state.getGroup('monitors').  A read that
\* throws is caught and logged; an empty group ends the tick.
CronTick(readOk) ==
    /\ cron.pc = "idle"
    /\ cron.tick < MaxCronTicks
    /\ LET c == [cron EXCEPT !.tick = @ + 1, !.emitted = << >>, !.attempted = << >>,
                             !.logged = ~readOk, !.read = readOk]
       IN cron' = IF readOk /\ Len(cron.stored) > 0
                  THEN [c EXCEPT !.pc = "loop", !.i = 1]
                  ELSE c
    /\ UNCHANGED <<pipeVars, storeVars, streamVars, route, check, api>>

\* a config without an id: warn and continue
CronSkip ==
    /\ cron.pc = "loop"
    /\ NoId(ResolveId(cron.stored[cron.i]))
    /\ cron' = CronAfter(cron, cron.i)
    /\ UNCHANGED <<pipeVars, storeVars, streamVars, route, check, api>>

\* await emit(PING_MONITOR): published, or the publish throws and the catch
\* around the loop ends the tick
CronEmit(ok) ==
    /\ cron.pc = "loop"
    /\ ~NoId(ResolveId(cron.stored[cron.i]))
    /\ LET e == PingEvent(ResolveId(cron.stored[cron.i]))
           c == [cron EXCEPT !.attempted = Append(@, e)]
       IN cron' = IF ok THEN CronAfter([c EXCEPT !.emitted = Append(@, e)], cron.i)
                  ELSE [c EXCEPT !.pc = "idle", !.i = 0, !.logged = TRUE]
    /\ UNCHANGED <<pipeVars, storeVars, streamVars, route, check, api>>

NextCron ==
    \/ \E readOk \in BOOLEAN : CronTick(readOk)
    \/ CronSkip
    \/ \E ok \in BOOLEAN : CronEmit(ok)

SpecCron == CronInit /\ [][NextCron]_vars

\* ============================================================ monitor creation
(***************************************************************************)
(* Part 6, the creation endpoint (POST /monitors).  One request is one     *)
(* step: validation, randomUUID, the single state.set and the response.    *)
(* api.request, api.writeThrew and api.calls are history.                  *)
(***************************************************************************)
\* strings z.string().url() accepts, among the strings requests carry
WellFormedUrls == {"http://a", "http://hook"}

\* request bodies: a missing string field is undefined, a number field is
\* << >> when missing and <<n>> when given
Bodies ==
    [url : {Undefined, "not a url", "http://a"},
     failureThreshold : {<< >>, <<0>>, <<2>>},
     timeoutMs : {<< >>, <<-1>>, <<1000>>},
     alertWebhookUrl : {Undefined, "hook", "http://hook"},
     alertTo : {Undefined, "ops@a"}]

\* z.string().url()
IsUrl(v) == v \in WellFormedUrls

\* z.number().int().positive().optional()
OptionalPositive(v) == v = << >> \/ v[1] > 0

\* inputSchema.safeParse(body).success
Parses(body) ==
    /\ IsUrl(body.url)
    /\ OptionalPositive(body.failureThreshold)
    /\ OptionalPositive(body.timeoutMs)
    /\ body.alertWebhookUrl = Undefined \/ IsUrl(body.alertWebhookUrl)

\* a ?? b
Coalesce(a, b) == IF a # Undefined THEN a ELSE b

\* a ?? b for a number field
CoalesceNumber(a, b) == IF a # << >> THEN a[1] ELSE b

Null == "null"

\* (mutant: other defaults)
MonitorConfigOtherDefaults(monitorId, data, now) ==
    [id |-> monitorId, url |-> data.url, name |-> Null,
     failureThreshold |-> CoalesceNumber(data.failureThreshold, 1),
     timeoutMs |-> CoalesceNumber(data.timeoutMs, 3000),
     alertWebhookUrl |-> Coalesce(data.alertWebhookUrl, Null),
     alertTo |-> Coalesce(data.alertTo, Null),
     emailFrom |-> Null,
     createdAt |-> ToISOString(now)]

\* monitorConfig (name and emailFrom are omitted by every request here)
MonitorConfig(monitorId, data, now) ==
    [id |-> monitorId, url |-> data.url, name |-> Null,
     failureThreshold |-> CoalesceNumber(data.failureThreshold, 3),
     timeoutMs |-> CoalesceNumber(data.timeoutMs, 5000),
     alertWebhookUrl |-> Coalesce(data.alertWebhookUrl, Null),
     alertTo |-> Coalesce(data.alertTo, Null),
     emailFrom |-> Null,
     createdAt |-> ToISOString(now)]

\* randomUUID(): an ID no earlier call returned; uuids counts the calls
RandomUUID(uuids) == uuids + 1

NoBody == [url |-> Undefined, failureThreshold |-> << >>, timeoutMs |-> << >>,
           alertWebhookUrl |-> Undefined, alertTo |-> Undefined]

ApiInit ==
    /\ PipeInit /\ StoreInit /\ StreamIdle /\ route = NoRoute
    /\ check = NoCheck /\ cron = NoCron
    /\ api = [pc |-> "serving", registry |-> << >>, uuids |-> 0, calls |-> 0,
              request |-> NoBody, writeThrew |-> FALSE,
              response |-> [status |-> 0]]

\* the handler runs for a request; stored = FALSE: state.set throws
CreateMonitor(body, stored) ==
    /\ api.pc = "serving"
    /\ api.calls < MaxCreates
    /\ LET a == [api EXCEPT !.calls = @ + 1, !.request = body, !.writeThrew = FALSE]
           monitorId == RandomUUID(api.uuids)
       IN api' =
            IF ~Parses(body)
            THEN [a EXCEPT !.response = [status |-> 400, error |-> "invalid_input"]]
            ELSE IF stored
            THEN [a EXCEPT !.uuids = monitorId,
                           !.registry = StateSet(@, monitorId,
                                                 MonitorConfig(monitorId, body, clock)),
                           !.response = [status |-> 201, monitorId |-> monitorId]]
            ELSE [a EXCEPT !.uuids = monitorId, !.writeThrew = TRUE,
                           !.response = [status |-> 500, error |-> "internal_error"]]
    /\ UNCHANGED <<pipeVars, storeVars, streamVars, route, check, cron>>

NextApi == \E body \in Bodies, stored \in BOOLEAN : CreateMonitor(body, stored)

SpecApi == ApiInit /\ [][NextApi]_vars

\* ===================================================== pipeline and stream
(***************************************************************************)
(* Part 7, the probe pipeline and one status-stream connection over the    *)
(* same stores: the stream's polls read the metrics the probes write.      *)
(* Handlers run one at a time, every event is delivered once and every     *)
(* store call succeeds; the connection's callbacks run between any two     *)
(* handler steps.  The response channel takes the placeholder and the      *)
(* events; a keep-alive write may throw.                                   *)
(***************************************************************************)
NextShared ==
    \/ \E w \in Workers, m \in Monitors, o \in HttpOutcomes :
          probes < MaxSharedProbes /\ PingMonitorBegin(TRUE, w, m, o, clock + 1, TRUE)
    \/ \E w \in Workers, m \in Monitors : MonitorDownBegin(TRUE, w, m, FALSE)
    \/ \E w \in Workers, m \in Monitors : MonitorRecoveredBegin(TRUE, w, m, FALSE)
    \/ \E m \in Monitors : CheckAnomalyRun(TRUE, m, FALSE)
    \/ \E w \in Workers : Step(w)
    \/ \E m \in StreamIds : Connect(m, TRUE, TRUE)
    \/ \E ok \in BOOLEAN : conn.ticks < MaxSharedTicks /\ KeepAliveTick(ok)
    \/ conn.ticks < MaxSharedTicks /\ PollTick
    \/ \E kind \in {"tick", "immediate"} : PollResume(kind, TRUE)
    \/ ClientClose

SpecShared == Init /\ [][NextShared]_vars

\* ===================================================== pipeline, failing bus
(***************************************************************************)
(* Part 8, the pipeline when a publish may throw.  PingMonitor awaits the  *)
(* emit of MONITOR_DOWN inside its try, after AlertState was set to DOWN;  *)
(* MonitorDown awaits the emit of SEND_ALERT inside its try, before        *)
(* AlertState is set to ALERTED.  Either catch logs and the handler         *)
(* returns normally, so the event that started it is not delivered again.  *)
(***************************************************************************)
\* emit({ topic: 'MONITOR_DOWN' }) throws: the catch of PingMonitor logs
PingEmitDownThrows(w) ==
    /\ worker[w].pc = "ping_emitDown"
    /\ hist.publishFailed < MaxPublishFailures
    /\ hist' = [hist EXCEPT !.publishFailed = @ + 1, !.mon[worker[w].m].consec = @ + 1]
    /\ worker' = [worker EXCEPT ![w] = Idle]
    /\ UNCHANGED <<streamVars, route, sideVars, failures, alertState, metrics, clock, bus, alerts, probes, dups>>

\* emit({ topic: 'SEND_ALERT' }) throws: the catch of MonitorDown logs
MonitorDownEmitThrows(w) ==
    /\ worker[w].pc = "down_emit"
    /\ hist.publishFailed < MaxPublishFailures
    /\ hist' = [hist EXCEPT !.publishFailed = @ + 1]
    /\ worker' = [worker EXCEPT ![w] = Idle]
    /\ UNCHANGED <<streamVars, route, sideVars, failures, alertState, metrics, clock, bus, alerts, probes, dups>>

\* the cron tick publishes a PING_MONITOR event and the bus delivers it
FairProbe ==
    \E w \in Workers, m \in Monitors, o \in HttpOutcomes :
        probes < MaxFairProbes /\ PingMonitorBegin(TRUE, w, m, o, clock + 1, TRUE)

\* the bus delivers a pending MONITOR_DOWN or MONITOR_RECOVERED event
FairDeliver ==
    \/ \E w \in Workers, m \in Monitors : MonitorDownBegin(TRUE, w, m, FALSE)
    \/ \E w \in Workers, m \in Monitors : MonitorRecoveredBegin(TRUE, w, m, FALSE)

\* the bus delivers a pending CHECK_ANOMALY event
FairCheck == \E m \in Monitors : CheckAnomalyRun(TRUE, m, FALSE)

\* FairCheck can happen: a CHECK_ANOMALY event is pending, no handler runs
CheckPending ==
    AllIdle /\ \E m \in Monitors : BagIn(Event("CHECK_ANOMALY", m), bus)

\* a handler in progress resumes after its await, which settled or threw
FairStep ==
    \/ \E w \in Workers : Step(w)
    \/ \E w \in Workers : PingEmitDownThrows(w)
    \/ \E w \in Workers : MonitorDownEmitThrows(w)

NextFair == FairProbe \/ FairDeliver \/ FairCheck \/ FairStep

\* Every pending event is eventually delivered and every handler in progress
\* eventually resumes; probes arrive as long as the schedule has any left.
\* The last conjunct is weak fairness of FairCheck, with its enabling
\* condition written out.
SpecFair ==
    /\ Init /\ [][NextFair]_vars
    /\ WF_vars(FairProbe) /\ WF_vars(FairDeliver) /\ WF_vars(FairStep)
    /\ ([]<>~CheckPending \/ []<><<FairCheck>>_vars)

\* ===================================================== detector in binary64
(***************************************************************************)
(* Part 9, the anomaly detector with the arithmetic the runtime performs.  *)
(* A JavaScript number is an IEEE 754 binary64: every +, -, *, / and       *)
(* Math.sqrt returns the exact result rounded to 53 significant bits, to   *)
(* nearest, ties to even.  A number is kept here as sign, magnitude and    *)
(* exponent, (-1)^neg * man * 2^exp, with man an odd natural number held   *)
(* as limbs of 15 bits, least significant first (zero: no limbs).  The     *)
(* windows of this model stay far from overflow, underflow and NaN.        *)
(***************************************************************************)
LimbBits == 15

LimbBase == 2 ^ LimbBits

RECURSIVE BigTrim(_)
BigTrim(a) ==
    IF a # << >> /\ a[Len(a)] = 0 THEN BigTrim(SubSeq(a, 1, Len(a) - 1)) ELSE a

BigLimb(a, i) == IF i <= Len(a) THEN a[i] ELSE 0

RECURSIVE BigFromInt(_)
BigFromInt(n) == IF n = 0 THEN << >> ELSE <<n % LimbBase>> \o BigFromInt(n \div LimbBase)

RECURSIVE BigAddFrom(_, _, _, _)
BigAddFrom(a, b, i, carry) ==
    IF i > Len(a) /\ i > Len(b)
    THEN IF carry = 0 THEN << >> ELSE <<carry>>
    ELSE LET s == BigLimb(a, i) + BigLimb(b, i) + carry
         IN <<s % LimbBase>> \o BigAddFrom(a, b, i + 1, s \div LimbBase)

BigAdd(a, b) == BigAddFrom(a, b, 1, 0)

\* a - b for a >= b
RECURSIVE BigSubFrom(_, _, _, _)
BigSubFrom(a, b, i, borrow) ==
    IF i > Len(a) THEN << >>
    ELSE LET d == a[i] - BigLimb(b, i) - borrow
         IN <<IF d < 0 THEN d + LimbBase ELSE d>>
                \o BigSubFrom(a, b, i + 1, IF d < 0 THEN 1 ELSE 0)

BigSub(a, b) == BigTrim(BigSubFrom(a, b, 1, 0))

RECURSIVE BigLessAt(_, _, _)
BigLessAt(a, b, i) ==
    IF i = 0 THEN FALSE
    ELSE IF a[i] # b[i] THEN a[i] < b[i]
    ELSE BigLessAt(a, b, i - 1)

BigLess(a, b) == IF Len(a) # Len(b) THEN Len(a) < Len(b) ELSE BigLessAt(a, b, Len(a))

\* a * d for one limb d
RECURSIVE BigMulLimbFrom(_, _, _, _)
BigMulLimbFrom(a, d, i, carry) ==
    IF i > Len(a)
    THEN IF carry = 0 THEN << >> ELSE <<carry>>
    ELSE LET p == a[i] * d + carry
         IN <<p % LimbBase>> \o BigMulLimbFrom(a, d, i + 1, p \div LimbBase)

RECURSIVE BigMulRaw(_, _)
BigMulRaw(a, b) ==
    IF b = << >> THEN << >>
    ELSE BigAdd(BigMulLimbFrom(a, b[1], 1, 0), <<0>> \o BigMulRaw(a, Tail(b)))

BigMul(a, b) == BigTrim(BigMulRaw(a, b))

\* a * 2^k
BigShl(a, k) ==
    IF a = << >> THEN << >>
    ELSE [i \in 1..(k \div LimbBits) |-> 0]
            \o BigMulLimbFrom(a, 2 ^ (k % LimbBits), 1, 0)

\* floor(a / 2^k)
BigShr(a, k) ==
    LET q == k \div LimbBits
        r == k % LimbBits
        high == IF q >= Len(a) THEN << >> ELSE SubSeq(a, q + 1, Len(a))
    IN BigTrim([i \in 1..Len(high) |->
                  (high[i] \div (2 ^ r))
                    + (BigLimb(high, i + 1) % (2 ^ r)) * (2 ^ (LimbBits - r))])

RECURSIVE IntBitLen(_)
IntBitLen(n) == IF n = 0 THEN 0 ELSE 1 + IntBitLen(n \div 2)

BigBitLen(a) ==
    IF a = << >> THEN 0 ELSE LimbBits * (Len(a) - 1) + IntBitLen(a[Len(a)])

\* bit i of a, bit 0 the least significant
BigBit(a, i) == (BigLimb(a, (i \div LimbBits) + 1) \div (2 ^ (i % LimbBits))) % 2

BigOdd(a) == a # << >> /\ a[1] % 2 = 1

\* the low k bits of a are all zero
BigLowZero(a, k) == BigShl(BigShr(a, k), k) = a

\* trailing zero bits of a # 0, counted from bit i on: whole limbs first
RECURSIVE BigTrailingZeros(_, _)
BigTrailingZeros(a, i) ==
    IF i % LimbBits = 0 /\ BigLimb(a, (i \div LimbBits) + 1) = 0
    THEN BigTrailingZeros(a, i + LimbBits)
    ELSE IF BigBit(a, i) = 1 THEN i
    ELSE BigTrailingZeros(a, i + 1)

\* Long division, n bits of a from bit i downwards; acc: the quotient q and
\* the remainder r of the bits above them.  r2: r with bit i of a appended.
RECURSIVE BigDivBits(_, _, _, _, _)
RECURSIVE BigDivBit(_, _, _, _, _, _)
BigDivBit(a, b, i, n, q, r2) ==
    IF BigLess(r2, b)
    THEN BigDivBits(a, b, i - 1, n - 1, [q |-> BigShl(q, 1), r |-> r2])
    ELSE BigDivBits(a, b, i - 1, n - 1,
                    [q |-> BigAdd(BigShl(q, 1), <<1>>), r |-> BigSub(r2, b)])

BigDivBits(a, b, i, n, acc) ==
    IF n = 0 THEN acc
    ELSE BigDivBit(a, b, i, n, acc.q,
                   BigAdd(BigShl(acc.r, 1), BigFromInt(BigBit(a, i))))

\* the same a limb at a time, limb l of a down to limb 1
RECURSIVE BigDivLimbs(_, _, _, _)
BigDivLimbs(a, b, l, acc) ==
    IF l = 0 THEN acc
    ELSE BigDivLimbs(a, b, l - 1, BigDivBits(a, b, LimbBits * l - 1, LimbBits, acc))

\* floor(a / b) and a mod b
BigDivMod(a, b) == BigDivLimbs(a, b, Len(a), [q |-> << >>, r |-> << >>])

\* The square root digit by digit, count digits from 2^j downwards (2^j runs
\* over the powers of four); acc: what is left of n and the root so far.
\* t: the root so far plus 2^j.
RECURSIVE BigSqrtBits(_, _, _)
RECURSIVE BigSqrtBit(_, _, _, _)
BigSqrtBit(acc, j, count, t) ==
    IF BigLess(acc.rem, t)
    THEN BigSqrtBits([rem |-> acc.rem, root |-> BigShr(acc.root, 1)], j - 2, count - 1)
    ELSE BigSqrtBits([rem |-> BigSub(acc.rem, t),
                      root |-> BigAdd(BigShr(acc.root, 1), BigShl(<<1>>, j))],
                     j - 2, count - 1)

BigSqrtBits(acc, j, count) ==
    IF count = 0 \/ j < 0 THEN acc
    ELSE BigSqrtBit(acc, j, count, BigAdd(acc.root, BigShl(<<1>>, j)))

\* the same eight digits at a time
RECURSIVE BigSqrtChunks(_, _)
BigSqrtChunks(acc, j) ==
    IF j < 0 THEN acc ELSE BigSqrtChunks(BigSqrtBits(acc, j, 8), j - 16)

\* floor(sqrt(n)) and n - floor(sqrt(n))^2
BigSqrt(n) ==
    IF n = << >> THEN [root |-> << >>, rem |-> << >>]
    ELSE BigSqrtChunks([rem |-> n, root |-> << >>], ((BigBitLen(n) - 1) \div 2) * 2)

FlZero == [neg |-> FALSE, man |-> << >>, exp |-> 0]

\* m * 2^(e - tz) for a multiple m of 2^tz
FlStrip(neg, m, e, tz) == [neg |-> neg, man |-> BigShr(m, tz), exp |-> e + tz]

\* m * 2^e with the trailing zero bits of m moved into the exponent
FlNorm(neg, m, e) ==
    IF m = << >> THEN FlZero ELSE FlStrip(neg, m, e, BigTrailingZeros(m, 0))

\* q * 2^e or, rounding up, (q + 1) * 2^e; half: the first bit dropped,
\* rest: whether anything lies beyond it.  Ties go to the even q.
FlRoundQ(neg, q, e, half, rest) ==
    FlNorm(neg, IF half /\ (rest \/ BigOdd(q)) THEN BigAdd(q, <<1>>) ELSE q, e)

\* the low `drop` bits of m are rounded away
FlRoundAt(neg, m, e, sticky, drop) ==
    FlRoundQ(neg, BigShr(m, drop), e + drop,
             BigBit(m, drop - 1) = 1, sticky \/ ~BigLowZero(m, drop - 1))

\* The binary64 nearest to a magnitude between m * 2^e and (m + 1) * 2^e,
\* ties to even; sticky: the magnitude is above m * 2^e (m then has at least
\* 55 bits).
FlRound(neg, m, e, sticky) ==
    IF BigBitLen(m) <= 53 THEN FlNorm(neg, m, e)
    ELSE FlRoundAt(neg, m, e, sticky, BigBitLen(m) - 53)

\* an integer below 2^31 is a binary64 exactly
FlFromInt(n) == FlNorm(FALSE, BigFromInt(n), 0)

FlNeg(x) == IF x.man = << >> THEN x ELSE [x EXCEPT !.neg = ~@]

\* (-1)^xneg * mx * 2^e + (-1)^yneg * my * 2^e
FlAddAligned(xneg, mx, yneg, my, e) ==
    IF xneg = yneg THEN FlRound(xneg, BigAdd(mx, my), e, FALSE)
    ELSE IF BigLess(mx, my) THEN FlRound(yneg, BigSub(my, mx), e, FALSE)
    ELSE FlRound(xneg, BigSub(mx, my), e, FALSE)

\* x + y, y having the lower exponent
FlAddLower(x, y) == FlAddAligned(x.neg, BigShl(x.man, x.exp - y.exp), y.neg, y.man, y.exp)

\* x + y
FlAdd(x, y) == IF x.exp < y.exp THEN FlAddLower(y, x) ELSE FlAddLower(x, y)

\* x - y
FlSub(x, y) == FlAdd(x, FlNeg(y))

\* x * y
FlMul(x, y) == FlRound(x.neg # y.neg, BigMul(x.man, y.man), x.exp + y.exp, FALSE)

\* the quotient dm.q, inexact when the remainder dm.r is not zero
FlQuotient(neg, dm, e) == FlRound(neg, dm.q, e, dm.r # << >>)

\* x / y from x * 2^k / y
FlDivShifted(x, y, k) ==
    FlQuotient(x.neg # y.neg, BigDivMod(BigShl(x.man, k), y.man), x.exp - k - y.exp)

\* a natural number or zero
Monus(n) == IF n > 0 THEN n ELSE 0

\* x / y for y # 0: from a quotient of at least 55 bits
FlDiv(x, y) ==
    IF x.man = << >> THEN FlZero
    ELSE FlDivShifted(x, y, Monus(BigBitLen(y.man) + 55 - BigBitLen(x.man)))

\* the root s.root, inexact when s.rem is not zero
FlRoot(s, e) == FlRound(FALSE, s.root, e, s.rem # << >>)

\* sqrt(x) from x * 2^k with x.exp - k even
FlSqrtShifted(x, k) == FlRoot(BigSqrt(BigShl(x.man, k)), (x.exp - k) \div 2)

\* k0, or k0 + 1 to make e - k0 even
EvenShift(e, k0) == IF (e - k0) % 2 = 0 THEN k0 ELSE k0 + 1

\* Math.sqrt(x) for x >= 0: from a root of at least 55 bits
FlSqrt(x) ==
    IF x.man = << >> THEN FlZero
    ELSE FlSqrtShifted(x, EvenShift(x.exp, Monus(110 - BigBitLen(x.man))))

\* x > 0
FlPositive(x) == x.man # << >> /\ ~x.neg

\* Math.abs(z) > k for a natural number k
FlAbsExceeds(z, k) ==
    IF z.exp < 0
    THEN BigLess(BigShl(BigFromInt(k), 0 - z.exp), z.man)
    ELSE BigLess(BigFromInt(k), BigShl(z.man, z.exp))

\* nums.reduce((s, v) => s + v, 0)
RECURSIVE FlSum(_, _)
FlSum(nums, i) == IF i = 0 THEN FlZero ELSE FlAdd(FlSum(nums, i - 1), nums[i])

\* mean(nums)
FlMean(nums) ==
    IF Len(nums) = 0 THEN FlZero
    ELSE FlDiv(FlSum(nums, Len(nums)), FlFromInt(Len(nums)))

\* d * d
FlSquare(d) == FlMul(d, d)

\* nums.reduce((s, v) => s + (v - mu) * (v - mu), 0)
RECURSIVE FlSumSq(_, _, _)
FlSumSq(nums, mu, i) ==
    IF i = 0 THEN FlZero
    ELSE FlAdd(FlSumSq(nums, mu, i - 1), FlSquare(FlSub(nums[i], mu)))

\* pstdev(nums)
FlPstdev(nums) ==
    IF Len(nums) = 0 THEN FlZero
    ELSE FlSqrt(FlDiv(FlSumSq(nums, FlMean(nums), Len(nums)), FlFromInt(Len(nums))))

\* stdev > 0 ? (latest - mean) / stdev : 0
FlScore(latest, mean, stdev) ==
    IF FlPositive(stdev) THEN FlDiv(FlSub(latest, mean), stdev) ELSE FlZero

\* the score of the latest of nums against mean(nums) and pstdev(nums)
FlZScore(nums) == FlScore(LatestOf(nums), FlMean(nums), FlPstdev(nums))

\* severityFromZ(z)
FlSeverityFromZ(z) ==
    IF FlAbsExceeds(z, 3) THEN "CRITICAL"
    ELSE IF FlAbsExceeds(z, 2) THEN "WARNING"
    ELSE "NORMAL"

\* metrics.map(m => m.latency)
FlLatencies(sorted) == [i \in 1..Len(sorted) |-> FlFromInt(sorted[i].latency)]

\* failures / arr.length per minute bucket
FlErrorRates(rates) ==
    [i \in 1..Len(rates) |-> FlDiv(FlFromInt(rates[i].num), FlFromInt(rates[i].den))]

\* the result object, with the locals sevLatency and sevError
FlResult(monitorId, samples, buckets, zLatency, zError, sevLatency, sevError) ==
    [monitorId |-> monitorId,
     severity |-> Worse(sevLatency, sevError),
     reason |-> "",
     samples |-> samples,
     buckets |-> buckets,
     latency |-> [z |-> zLatency],
     error_rate |-> [z |-> zError],
     sevLatency |-> sevLatency,
     sevError |-> sevError]

FlSeverities(monitorId, samples, buckets, zLatency, zError) ==
    FlResult(monitorId, samples, buckets, zLatency, zError,
             FlSeverityFromZ(zLatency), FlSeverityFromZ(zError))

FlScores(monitorId, samples, latencies, errorRates) ==
    FlSeverities(monitorId, samples, Len(errorRates),
                 FlZScore(latencies), FlZScore(errorRates))

\* the handler on the in-window metrics, oldest first
FlCheckSorted(monitorId, sorted) ==
    IF Len(sorted) = 0
    THEN [monitorId |-> monitorId, severity |-> "NORMAL", reason |-> "no_metrics"]
    ELSE FlScores(monitorId, Len(sorted), FlLatencies(sorted),
                  FlErrorRates(ErrorRates(sorted)))

\* The handler's numbers for the metrics `all` read from the store, as the
\* runtime computes them.
FlCheckAnomaly(all, monitorId, now) ==
    FlCheckSorted(monitorId, SortOldestFirst(AnomalyMetrics(all, monitorId, now)))

\* probes of m1 a minute apart: a usual round trip or a slower one, answered
\* or not
FloatKinds == [latency : {100, 209}, success : BOOLEAN, dt : {60000}]

FloatInit ==
    /\ PipeInit /\ StoreInit /\ StreamIdle /\ route = NoRoute
    /\ cron = NoCron /\ api = NoApi
    /\ check = [pc |-> "float", store |-> << >>, last |-> NoRun]

\* a probe persists its metric
FloatRecord(kind) ==
    /\ check.pc = "float"
    /\ Len(check.store) < MaxFloatSamples
    /\ check' = [check EXCEPT
                   !.store = Append(@, SampleMetric(kind, Newest(@) + kind.dt)),
                   !.last = NoRun]
    /\ UNCHANGED <<pipeVars, storeVars, streamVars, route, cron, api>>

\* the handler has returned `result`
FloatDone(now, result) ==
    [done |-> TRUE, now |-> now, result |-> result, emitted |-> AnomalyEmits(result)]

\* CHECK_ANOMALY for m1 is handled right after the newest metric was written
FloatCheck ==
    /\ check.pc = "float"
    /\ check.store # << >>
    /\ ~check.last.done
    /\ check' = [check EXCEPT
                   !.last = FloatDone(Newest(check.store),
                                      FlCheckAnomaly(check.store, "m1", Newest(check.store)))]
    /\ UNCHANGED <<pipeVars, storeVars, streamVars, route, cron, api>>

NextFloat ==
    \/ \E kind \in FloatKinds : FloatRecord(kind)
    \/ FloatCheck

SpecFloat == FloatInit /\ [][NextFloat]_vars

\* ------------------------------------------------------------------ claims
Threshold(m) == FailureThreshold(MonitorStore[m])

\* C1: with handlers run one at a time and every event handled before the next
\* probe, a run of consecutive failed probes has produced no down-alert while
\* it is shorter than the failure threshold and exactly one from the
\* threshold-th failure on, however long it gets.
C1_OneDownAlertPerFailureRun ==
    \A m \in Monitors :
        (hist.prompt /\ Quiescent) =>
            hist.mon[m].critRun = (IF hist.mon[m].consec >= Threshold(m) THEN 1 ELSE 0)

\* the default threshold 3 is passed: a 4th consecutive failure, still one alert
C1_Witness ==
    /\ hist.prompt /\ Quiescent
    /\ hist.mon["m2"].consec = Threshold("m2") + 1
    /\ hist.mon["m2"].critRun = 1
    /\ StateGet(alertState, "m2") = "ALERTED"

\* C2: after a successful probe that found AlertState ALERTED, once the
\* recovery event has been handled, one recovery alert has been emitted for
\* the outage, FailureCounter is 0 and AlertState is UP.
C2_RecoveryAlertAfterAlerted ==
    \A m \in Monitors :
        (hist.prompt /\ Quiescent /\ hist.mon[m].lastPrev = "ALERTED") =>
            /\ hist.mon[m].recOutage = 1
            /\ GetFailures(failures, m) = 0
            /\ StateGet(alertState, m) = "UP"

C4_OneDownAlertPerOutage == \A m \in Monitors : hist.mon[m].critOutage <= 1

\* C5: whenever no handler is in progress, FailureCounter is the number of
\* consecutive failed probes completed since the last successful one.
C5_FailureCounterExact ==
    \A m \in Monitors : AllIdle => GetFailures(failures, m) = hist.mon[m].consec

\* C6: once the client's disconnect has been processed, neither the
\* keep-alive timer nor the polling timer is still scheduled.
C6_NoTimerAfterDisconnect ==
    conn.phase = "resolved" => ~conn.pollInterval /\ ~conn.keepAliveInterval

\* the in-window metrics of the stream's monitor, as a set
WindowSet ==
    {x \in {metrics[k] : k \in DOMAIN metrics} :
        /\ x.monitorId = conn.monitorId
        /\ x.timestamp.valid
        /\ clock - x.timestamp.ms <= WindowMs}

\* the event a poll owes the client: the empty marker, or the latest in-window
\* metric with the window's success fraction times 100
OwedEvent ==
    IF WindowSet = {}
    THEN [kind |-> "empty", monitorId |-> conn.monitorId, timestamp |-> ToISOString(clock)]
    ELSE LET latest == CHOOSE x \in WindowSet :
                          \A y \in WindowSet : y.timestamp.ms <= x.timestamp.ms
         IN [kind |-> "status", monitorId |-> conn.monitorId,
             timestamp |-> latest.timestamp, latency |-> latest.latency,
             statusCode |-> latest.statusCode, success |-> latest.success,
             uptimePercent |-> [num |-> 100 * Cardinality({x \in WindowSet : x.success}),
                                den |-> Cardinality(WindowSet)]]

C7_Shape ==
    /\ \A i \in 2..Len(sent) : sent[i].kind # "placeholder"
    /\ (conn.phase \in {"streaming", "resolved"} /\ conn.failedWrites = 0) =>
          (Len(sent) >= 1 /\ sent[1].kind = "placeholder")
    /\ conn.closed => (conn.phase = "resolved" \/ conn.failedWrites > 0)

C7_Poll ==
    LET tickDone == CopiesIn("tick", inflight') < CopiesIn("tick", inflight)
        immediateDone == CopiesIn("immediate", inflight') < CopiesIn("immediate", inflight)
        written == conn'.failedWrites = conn.failedWrites
    IN /\ (tickDone /\ written) => sent' = Append(sent, OwedEvent)
       /\ (immediateDone /\ written) =>
             sent' = IF WindowSet = {} THEN sent ELSE Append(sent, OwedEvent)

\* C7: the client gets the placeholder first and only once; every polling tick
\* whose write succeeds delivers one event, the empty marker while the window
\* holds no metric of the monitor and otherwise the latest in-window metric
\* with uptimePercent = successes / total * 100; the connection is closed only
\* by a disconnect or a failed write, never for lack of data.
C7_StreamEvents == [](C7_Shape) /\ [][C7_Poll]_vars

\* placeholder, then an empty event, then a populated one over two metrics
C7_Witness ==
    /\ conn.failedWrites = 0
    /\ Len(sent) >= 3
    /\ sent[1].kind = "placeholder"
    /\ \E i, j \in 2..Len(sent) :
          /\ i < j
          /\ sent[i].kind = "empty"
          /\ sent[j].kind = "status"
          /\ sent[j].uptimePercent = [num |-> 100, den |-> 2]

Attempted(channel) == \E i \in 1..Len(route.attempts) : route.attempts[i].channel = channel

BothConfigured ==
    /\ route.found
    /\ EmailConfigured(route.monitor, route.env)
    /\ WebhookUrl(route.monitor, route.env) # ""

\* C8: with both channels configured, a CRITICAL alert and a recovery notice
\* always get their webhook attempt, whether or not the email dispatch throws.
C8_WebhookAttemptedDespiteEmailFailure ==
    (route.pc = "done" /\ BothConfigured
       /\ (route.severity = "CRITICAL"
             \/ (route.severity = "NORMAL" /\ Recovered(route.diagnostic))))
    => Attempted("webhook")

\* the channels the severity selects
SelectedChannels ==
    CASE route.severity = "CRITICAL" -> {"email", "webhook"}
      [] route.severity = "WARNING" -> {"webhook"}
      [] route.severity = "NORMAL" /\ Recovered(route.diagnostic) -> {"email", "webhook"}
      [] OTHER -> {}

ConfiguredChannels ==
    (IF EmailConfigured(route.monitor, route.env) THEN {"email"} ELSE {})
    \cup (IF WebhookUrl(route.monitor, route.env) # "" THEN {"webhook"} ELSE {})

\* C9: for an existing monitor the channels attempted are exactly the ones the
\* severity selects that are configured.
C9_ChannelsBySeverity ==
    (route.pc = "done" /\ route.found) =>
        {c \in {"email", "webhook"} : Attempted(c)} = SelectedChannels \cap ConfiguredChannels

\* C10: every dispatch uses the monitor's own webhook URL, recipient and sender
\* when set, and the process-wide default only when it is missing.
C10_MonitorValueFirst ==
    route.pc = "done" =>
        \A i \in 1..Len(route.attempts) :
            LET a == route.attempts[i] IN
            IF a.channel = "webhook"
            THEN a.url = (IF route.monitor.alertWebhookUrl # ""
                          THEN route.monitor.alertWebhookUrl
                          ELSE route.env.MONITOR_WEBHOOK_URL)
            ELSE /\ a.to = (IF route.monitor.alertTo # "" THEN route.monitor.alertTo
                            ELSE route.env.EMAIL_TO)
                 /\ a.from = (IF route.monitor.emailFrom # "" THEN route.monitor.emailFrom
                              ELSE route.env.EMAIL_FROM)

\* the metrics of monitor m in the store
MetricsOf(m) == {k \in DOMAIN metrics : metrics[k].monitorId = m}

\* C13: the metric store holds one metric per completed metric write of a
\* probe: no probe overwrites the metric of another, also when two probes of a
\* monitor overlap and read the same clock value.
C13_OneMetricPerProbe ==
    \A m \in Monitors : Cardinality(MetricsOf(m)) = hist.mon[m].written

StoresUnchanged == UNCHANGED <<failures, alertState, metrics, bus, alerts>>

\* C19: a probe for a monitor ID without a stored config issues no HTTP
\* request, writes no store, emits no event and leaves no handler in progress.
C19_UnknownMonitorNoOp ==
    [][(probes' = probes + 1 /\ hist'.lastUnknown)
         => (~hist'.lastHttp /\ StoresUnchanged /\ worker' = worker)]_vars

\* a probe of a missing monitor ran while a failure counter and an alert
\* state were stored and an event was pending
C19_Witness ==
    /\ hist.lastUnknown
    /\ failures # << >>
    /\ alertState # << >>
    /\ bus # EmptyBag

PingPcs == {"ping_getFailures", "ping_resetFailures", "ping_getStateOk", "ping_setUp",
            "ping_emitRecovered", "ping_emitAnomaly", "ping_setFailures",
            "ping_getStateFail", "ping_setDown", "ping_emitDown", "ping_finish"}

\* C20: while a probe updates the failure counter or the alert state or emits
\* its events (CHECK_ANOMALY included), the metric store contains the Metric
\* that probe wrote.
C20_MetricBeforeEffects ==
    \A w \in Workers :
        worker[w].pc \in PingPcs => \E k \in DOMAIN metrics : metrics[k] = worker[w].metric

\* (the second half of C20) a probe whose metric write throws changes no store
\* and emits nothing
FailedWriteNoEffect ==
    [][(probes' = probes + 1 /\ hist'.lastHttp
          /\ \A m \in Monitors : hist'.mon[m].written = hist.mon[m].written)
         => (StoresUnchanged /\ worker' = worker)]_vars

\* the metrics of the present store that a run at `now` keeps
InAnomalyWindow(now) == AnomalyMetrics(check.store, "m1", now)

\* C14: a run on a window of exactly one sample reports latency stdev 0 and
\* z 0, error-rate stdev 0 and z 0, severity NORMAL, and emits no SEND_ALERT.
C14_SingleSampleNormal ==
    (check.pc = "open" /\ check.last.done /\ Len(InAnomalyWindow(check.last.now)) = 1) =>
        LET r == check.last.result IN
        /\ r.samples = 1
        /\ r.latency.stdev.rad = 0 /\ r.latency.z = Zero
        /\ r.error_rate.stdev.rad = 0 /\ r.error_rate.z = Zero
        /\ r.severity = "NORMAL"
        /\ check.last.alerts = EmptyBag

\* a run on a window whose single sample is a failed probe of 500 ms, with an
\* older metric in the store
C14_Witness ==
    /\ check.pc = "open" /\ check.last.done
    /\ Len(check.store) > 1
    /\ Len(InAnomalyWindow(check.last.now)) = 1
    /\ check.last.result.latency.value = 500
    /\ ~InAnomalyWindow(check.last.now)[1].success

\* 20 successful probes of 100 ms, then one successful probe of 500 ms, each
\* later than the one before and all in the window of a check that follows
ScenarioC ==
    /\ Len(check.store) = 21
    /\ \A i \in 1..20 : check.store[i].latency = 100 /\ check.store[i].success
    /\ check.store[21].latency = 500 /\ check.store[21].success
    /\ \A i \in 1..20 : ParseISO(check.store[i].timestamp) < ParseISO(check.store[i + 1].timestamp)
    /\ Len(InAnomalyWindow(Newest(check.store))) = 21
    /\ check.last.done => check.last.now = Newest(check.store)

\* z > k for a positive k
Exceeds(z, k) == z.num > 0 /\ AbsExceeds(z, k)

\* C15: in scenario C the latency z-score of the latest sample is above 3
\* (mean 2500/21, divide-by-n deviation), the result is CRITICAL and one
\* SEND_ALERT is emitted; AlertState is not touched.
C15_SpikeIsCritical ==
    (check.pc = "open" /\ check.last.done /\ ScenarioC) =>
        LET r == check.last.result IN
        /\ r.latency.value = 500
        /\ r.latency.mean = [num |-> 2500, den |-> 21]
        /\ r.latency.stdev = [rad |-> 21 * 450000 - 2500 * 2500, den |-> 21]
        /\ Exceeds(r.latency.z, 3)
        /\ r.severity = "CRITICAL"
        /\ check.last.alerts = SetToBag({AlertEvent("m1", "CRITICAL", FALSE)})
        /\ StateGet(alertState, "m1") \in {Undefined, "UP"}

C15_Witness == check.pc = "open" /\ check.last.done /\ ScenarioC

\* C16: two runs at the same time on the same stored metrics yield the same
\* result, whatever the order the store returns the metrics in.
C16_SameWindowSameResult ==
    (check.pc = "open" /\ check.prev.done /\ check.last.done
       /\ check.prev.now = check.last.now)
    => check.prev.result = check.last.result

\* a stored config has an ID, under either of the two field names
HasId(c) == c.id # Undefined \/ c.monitorId # Undefined

IdOf(c) == IF c.id # Undefined THEN c.id ELSE c.monitorId

\* one probe request, carrying the ID only, per config with an ID, in order
Scheduled(stored) ==
    LET withId == SelectSeq(stored, HasId)
    IN [k \in 1..Len(withId) |-> [monitorId |-> IdOf(withId[k])]]

IsPrefix(p, q) == Len(p) <= Len(q) /\ SubSeq(q, 1, Len(p)) = p

TickOver == cron.pc = "idle" /\ cron.tick > 0 /\ cron.read

\* C11: a tick publishes PING_MONITOR events for configs with an ID only, one
\* each and in order, each carrying nothing but the monitor ID; a tick in which
\* no publish threw has published one for every such config, configs without
\* an ID in between notwithstanding; no store is written.
C11_OnePingPerConfig ==
    /\ cron.pc # "none" =>
         /\ IsPrefix(cron.emitted, Scheduled(cron.stored))
         /\ \A k \in 1..Len(cron.emitted) : DOMAIN cron.emitted[k] = {"monitorId"}
         /\ (TickOver /\ ~cron.logged) => cron.emitted = Scheduled(cron.stored)
    /\ cron.pc # "none" => (failures = << >> /\ alertState = << >> /\ metrics = << >>)

\* a finished tick over a config without an ID followed by configs of both
\* shapes, all published
C11_Witness ==
    /\ TickOver /\ ~cron.logged
    /\ Len(cron.stored) = 3
    /\ ~HasId(cron.stored[1])
    /\ cron.emitted = <<[monitorId |-> "m1"], [monitorId |-> "m3"]>>

\* C12: a publish that throws for one monitor does not keep the tick from
\* scheduling the monitors after it: every config with an ID gets its emit
\* call in every tick that read the registry.
C12_FailureDoesNotHaltTick ==
    TickOver => Len(cron.attempted) = Len(Scheduled(cron.stored))

\* a request the registration interface accepts: a well-formed URL, optional
\* positive integers, an optional well-formed webhook URL
ValidRequest(b) ==
    /\ b.url \in {"http://a"}
    /\ b.failureThreshold \in {<< >>, <<2>>}
    /\ b.timeoutMs \in {<< >>, <<1000>>}
    /\ b.alertWebhookUrl \in {Undefined, "http://hook"}

\* the registry gained exactly one config, under a fresh ID, with the defaults
StoredOne(old, new, id, b) ==
    /\ id \notin DOMAIN old
    /\ DOMAIN new = DOMAIN old \cup {id}
    /\ \A k \in DOMAIN old : new[k] = old[k]
    /\ new[id].id = id /\ new[id].url = b.url
    /\ new[id].failureThreshold = (IF b.failureThreshold = << >> THEN 3
                                   ELSE b.failureThreshold[1])
    /\ new[id].timeoutMs = (IF b.timeoutMs = << >> THEN 5000 ELSE b.timeoutMs[1])

\* C17 as stated: every request is answered 201 (valid) or 400 (invalid).
C17_Only201Or400 ==
    (api.pc = "serving" /\ api.calls > 0) =>
        api.response.status = (IF ValidRequest(api.request) THEN 201 ELSE 400)

\* C17 as amended: a valid request is answered 201 with a fresh monitorId after
\* exactly one MonitorConfig (defaults 3 and 5000) was stored under it, or 500
\* when the store write throws; an invalid request is answered 400 with the
\* registry unchanged; no other outcome reaches the caller.
C17_CreateOutcomes ==
    [][(api.pc = "serving" /\ api'.calls = api.calls + 1) =>
         LET b == api'.request
             resp == api'.response
         IN IF ~ValidRequest(b)
            THEN resp.status = 400 /\ api'.registry = api.registry
            ELSE IF api'.writeThrew
            THEN resp.status = 500
            ELSE /\ resp.status = 201
                 /\ StoredOne(api.registry, api'.registry, resp.monitorId, b)]_vars

\* a second monitor created from a request that omits both optional numbers
C17_Witness ==
    /\ api.pc = "serving"
    /\ api.response.status = 201
    /\ Cardinality(DOMAIN api.registry) = 2
    /\ api.request.failureThreshold = << >> /\ api.request.timeoutMs = << >>
    /\ api.registry[api.response.monitorId].failureThreshold = 3
    /\ api.registry[api.response.monitorId].timeoutMs = 5000

\* the dispatches of the invocation whose request failed
FailedAttempts ==
    {i \in 1..Len(route.attempts) :
        IF route.attempts[i].channel = "email" THEN route.emailThrows
        ELSE route.webhookThrows}

SeverityOfScore(z) ==
    IF z.num * z.num > 9 * z.rad THEN 3 ELSE IF z.num * z.num > 4 * z.rad THEN 2 ELSE 1

SeverityRank(severity) ==
    IF severity = "CRITICAL" THEN 3 ELSE IF severity = "WARNING" THEN 2 ELSE 1

Max(a, b) == IF a >= b THEN a ELSE b

\* the run found no metric of the monitor in the window
EmptyWindow(run) == InAnomalyWindow(run.now) = << >>

\* C22: every run of checkAnomaly reports NORMAL with reason no_metrics and
\* emits nothing on an empty window; otherwise its severity is the more
\* severe of the severities of its two z-scores, and it emits one SEND_ALERT
\* with that severity and the whole result as diagnostic when the severity
\* is not NORMAL, none when it is.  The previous run does not matter (no
\* deduplication), and AlertState and FailureCounter stay as they were.
C22_AlertIffNotNormal ==
    (check.pc = "open" /\ check.last.done) =>
        LET r == check.last.result IN
        /\ IF EmptyWindow(check.last)
           THEN r.severity = "NORMAL" /\ r.reason = "no_metrics"
           ELSE SeverityRank(r.severity) =
                    Max(SeverityOfScore(r.latency.z), SeverityOfScore(r.error_rate.z))
        /\ check.last.emitted =
               (IF r.severity = "NORMAL" THEN << >>
                ELSE <<[monitorId |-> "m1", severity |-> r.severity, diagnostic |-> r]>>)
        /\ failures = << >> /\ alertState = << >>

\* two runs in a row over the same anomalous window, both of which emitted;
\* the alert is a WARNING that only the latency score calls for
C22_Witness ==
    /\ check.pc = "open" /\ check.prev.done /\ check.last.done
    /\ check.prev.now = check.last.now
    /\ Len(check.prev.emitted) = 1 /\ Len(check.last.emitted) = 1
    /\ check.last.result.severity = "WARNING"
    /\ SeverityOfScore(check.last.result.latency.z) = 2
    /\ SeverityOfScore(check.last.result.error_rate.z) = 1

\* a run over an hour after the newest metric: an empty window
C22_WitnessEmpty ==
    /\ check.pc = "open" /\ check.last.done
    /\ check.store # << >> /\ EmptyWindow(check.last)

\* ------------------------------------------------------------------- C23
\* cleanup() called on the connection as it is: a first call leaves it closed
\* with no timer and one more disconnect logged, a later call leaves it as it
\* was, and a second call right after either changes nothing
CleanupOnce ==
    LET c == Cleanup(conn) IN
    /\ c.closed
    /\ ~conn.closed =>
           (~c.pollInterval /\ ~c.keepAliveInterval /\ c.disconnects = conn.disconnects + 1)
    /\ conn.closed => c = conn
    /\ Cleanup(c) = c

\* the disconnect is logged once, by the call that closed the connection
OneDisconnectLogged == conn.disconnects = (IF conn.closed THEN 1 ELSE 0)

\* a step that closes a streaming connection leaves no timer; a step on a
\* closed connection, whether a failed write or the disconnect, changes
\* neither the closed flag nor a timer nor the disconnect log
CleanupStep ==
    /\ (conn.phase = "streaming" /\ ~conn.closed /\ conn'.closed) =>
           (~conn'.pollInterval /\ ~conn'.keepAliveInterval /\ conn'.disconnects = 1)
    /\ conn.closed =>
           /\ conn'.closed
           /\ conn'.pollInterval = conn.pollInterval
           /\ conn'.keepAliveInterval = conn.keepAliveInterval
           /\ conn'.disconnects = conn.disconnects

\* C23: cleanup is idempotent.  The first call clears both timers, marks the
\* connection closed and logs the disconnect; a later call, from a failed
\* write or from the client's disconnect, changes no state and logs nothing.
C23_CleanupIdempotent == [](CleanupOnce /\ OneDisconnectLogged) /\ [][CleanupStep]_vars

\* cleanup was called by a failed write and by the disconnect, in either order
C23_Witness ==
    /\ conn.phase = "resolved"
    /\ conn.failedWrites >= 1
    /\ conn.disconnects = 1

\* ------------------------------------------------------------------- C25
\* C25: once the connection is closed (cleanup has run), nothing more is
\* written to its response channel: no status event, no empty marker, no
\* keep-alive, also not by a poll that was reading the metric store when the
\* connection closed.
C25_NoWriteAfterClose == [][conn.closed => sent' = sent]_vars

\* ------------------------------------------------------------------- C24
\* a step of the connection: setup, a timer firing, a poll resuming, teardown
StreamStep == <<conn, sent, inflight>>' # <<conn, sent, inflight>>

\* the step gives key k of the store a value it did not have
Written(before, after, k) ==
    k \in DOMAIN after /\ (k \notin DOMAIN before \/ after[k] # before[k])

\* the step is one of a handler invocation for monitor k at one of the pcs
StepOf(pcs, k) ==
    \E w \in Workers :
        worker[w].pc \in pcs /\ worker[w].m = k /\ worker'[w] # worker[w]

FailureWriters == {"ping_resetFailures", "ping_setFailures", "rec_resetFailures"}

StateWriters ==
    {"ping_setUp", "ping_setDown", "down_setAlerted", "rec_setUpStale", "rec_setUp"}

FrameStep ==
    /\ StreamStep => UNCHANGED <<metrics, failures, alertState, api>>
    /\ DOMAIN failures \subseteq DOMAIN failures' /\ DOMAIN failures' \subseteq Monitors
    /\ DOMAIN alertState \subseteq DOMAIN alertState' /\ DOMAIN alertState' \subseteq Monitors
    /\ \A k \in Monitors :
          /\ Written(failures, failures', k) => StepOf(FailureWriters, k)
          /\ Written(alertState, alertState', k) => StepOf(StateWriters, k)

\* C24: no step of the status stream changes the registry, the metric store,
\* FailureCounter or AlertState; a FailureCounter or AlertState entry changes
\* only in a store-writing step of PingMonitor, MonitorDown or
\* MonitorRecovered, and then it is the entry of the monitor that handler's
\* event names; no entry is ever removed.
C24_StoreOwnership == [][FrameStep]_vars

\* the stream of m1 delivered a populated event and was torn down while the
\* pipeline wrote FailureCounter of m1 and m2 and AlertState of m1
C24_Witness ==
    /\ conn.phase = "resolved"
    /\ \E i \in 1..Len(sent) : sent[i].kind = "status"
    /\ DOMAIN failures = {"m1", "m2"}
    /\ StateGet(alertState, "m1") = "ALERTED"

\* ------------------------------------------------------------------- C26
\* C26: whenever no handler is in progress, a monitor whose AlertState is
\* ALERTED has a FailureCounter at or above its failure threshold (its most
\* recent completed probe did not succeed).
C26_AlertedImpliesThreshold ==
    \A m \in Monitors :
        (AllIdle /\ StateGet(alertState, m) = "ALERTED") =>
            GetFailures(failures, m) >= Threshold(m)

\* ------------------------------------------------------------------- C27
DownAlerted(m) ==
    /\ StateGet(alertState, m) = "ALERTED"
    /\ BagIn(AlertEvent(m, "CRITICAL", FALSE), alerts)

\* C27: whenever a monitor's AlertState is DOWN, it eventually is ALERTED
\* with a CRITICAL alert request published, or UP, when pending events are
\* delivered and handlers run on, also when one publish throws.
C27_DownIsTransient ==
    \A m \in Monitors :
        (StateGet(alertState, m) = "DOWN") ~>
            (DownAlerted(m) \/ StateGet(alertState, m) = "UP")

\* ------------------------------------------------------------------- C28
\* C28: a run of the detector never finds latency severity WARNING or
\* CRITICAL on 5 or fewer in-window samples nor CRITICAL on 10 or fewer, and
\* never error-rate severity WARNING or CRITICAL on 5 or fewer one-minute
\* buckets nor CRITICAL on 10 or fewer.
C28_SmallWindowIsQuiet ==
    (check.pc = "float" /\ check.last.done) =>
        LET r == check.last.result IN
        /\ r.samples <= 5 => r.sevLatency = "NORMAL"
        /\ r.samples <= 10 => r.sevLatency # "CRITICAL"
        /\ r.buckets <= 5 => r.sevError = "NORMAL"
        /\ r.buckets <= 10 => r.sevError # "CRITICAL"


====
